---- MODULE Spec2Model ----
(***************************************************************************)
(* Commit-message generation pipeline of fusi-tools (aiCommit feature).    *)
(*                                                                         *)
(* Part 1: the generation orchestrator (AiService.generateHybrid and       *)
(*         AiService.generate) driven by runAiGeneration, with the UI      *)
(*         side effects of the command layer.                              *)
(* Part 2: the response parser (AiService.parseResponse, fallbackParse,    *)
(*         isValidCommitOption) over character sequences.                  *)
(* Part 3: the sorter (AiService.sortOptions).                             *)
(* Part 4: the change collector (GitService.analyzeChanges,                *)
(*         processSingleChange, formatSmartDiff) driven by generateDirect. *)
(* Part 5: applying an option (fusi-tools.applyCommit,                     *)
(*         GitService.setCommitMessage).                                   *)
(* Part 6: overlapping invocations of runAiGeneration on one view.         *)
(* Part 7: the scan of the bulk diff (GitService.parseDiffOutput).         *)
(* Part 8: the cached diff of previewSmartDiff, generateSmart and          *)
(*         generateDirect.                                                 *)
(* Part 9: the translation cache (LRUCache).                               *)
(***************************************************************************)
EXTENDS Integers, Sequences, FiniteSets, TLC

VARIABLES
    variant,      \* which AiService drives the invocation: "hybrid" | "generate"
    apiKey,       \* config.get("apiKey") is set
    enableDeep,   \* config.get("enableDeepThinking") ?? true
    fastResp,     \* what the fast backend answers: [kind, items]
    deepResp,     \* what the deep backend answers: [kind, items]
    inv,          \* the generateHybrid / generate promise
    fast,         \* fastTask: "none" | "pending" | "settled"
    deep,         \* reasoningTask: "none" | "pending" | "settled"
    results,      \* const results: CommitOption[] (the shared accumulator)
    calls,        \* every list handed to onUpdate, in order
    view,         \* AiCommitViewProvider.commitOptions
    errorsShown,  \* number of vscode.window.showErrorMessage calls
    runner,       \* runAiGeneration: "awaiting" | "focused" | "failed"
    input,        \* parser: what the backend was made to write (elements, shape)
    content,      \* parser: the raw response text (sequence of characters)
    parsed,       \* parser: the list parseResponse returned
    ppc,          \* parser: "ready" | "returned" | "threw" | "rethrown"
    path,         \* parser: which path produced the result
    logged,       \* parser: the Logger.error / Logger.info messages, in order
    sortOrder,    \* sorter: the priority list of the AiService in use
    unsorted,     \* sorter: the list handed to sortOptions
    sortResult,       \* sorter: the list after sortOptions
    spc,          \* sorter: "ready" | "sorted" | "threw"
    repository,   \* collector: getRepository() finds a repository
    indexChanges, \* collector: repo.state.indexChanges
    commands,     \* collector: which git commands succeed
    gpc,          \* collector: "idle" | "classify" | "analyzed" | "accumulate"
                  \*            | "formatted" | "done"
    statusMap,    \* collector: const statusMap of analyzeChanges
    fullDiffMap,  \* collector: const fullDiffMap of analyzeChanges
    smartChanges, \* collector: const results of analyzeChanges
    analysis,     \* collector: what analyzeChanges returned
    classified,   \* collector: number of processSingleChange calls
    diffReads,    \* collector: number of per-file execGitDiff calls
    spawned,      \* collector: the execCommand calls, in order
    gitLog,       \* collector: the console.error messages, in order
    totalOutput,  \* collector: let totalOutput of formatSmartDiff
    isStatFallback, \* collector: let isStatFallback of formatSmartDiff
    diffText,     \* collector: what formatSmartDiff returned
    warned,       \* collector: number of showWarningMessage calls
    prompt,       \* collector: the text handed to runAiGeneration
    scm,          \* apply: a repository, hence an input box, exists
    inputBox,     \* apply: repo.inputBox.value
    boxWrites,    \* apply: number of assignments to repo.inputBox.value
    applied,      \* apply: the arguments of the applyCommit calls, in order
    runs,         \* overlap: the runAiGeneration invocations, by order of their start
    shown,        \* overlap: AiCommitViewProvider.commitOptions and whose callback set it
    requestsSent, \* overlap: number of HTTP requests issued so far
    bulkDiff,     \* scan: the files of the bulk diff, as git printed them
    fullOutput,   \* scan: const lines = fullOutput.split("\n")
    scanAt,       \* scan: the index of the line the loop is at
    currentFile,  \* scan: let currentFile
    currentBuffer, \* scan: let currentBuffer
    fragments,    \* scan: const map, path -> lines of the fragment
    dpc,          \* scan: "idle" | "scan" | "done"
    cachedDiff,   \* cache: let cachedDiff
    staged,       \* cache: the text of the staged changes, "" for none
    cmds,         \* cache: the runs of the three commands
    backend,      \* cache: the diffs handed to aiService.generate
    stagings,     \* cache: how often the index has changed
    cache,        \* lru: LRUCache.cache, the entries of the Map in its order
    maxSize,      \* lru: LRUCache.maxSize
    history       \* lru: the calls made so far, for the properties

vars == <<variant, apiKey, enableDeep, fastResp, deepResp, inv, fast, deep,
          results, calls, view, errorsShown, runner, input, content, parsed, ppc,
          path, logged, sortOrder, unsorted, sortResult, spc, repository,
          indexChanges, commands, gpc, statusMap, fullDiffMap, smartChanges,
          analysis, classified, diffReads, spawned, gitLog, totalOutput,
          isStatFallback, diffText, warned, prompt,
          scm, inputBox, boxWrites, applied,
          runs, shown, requestsSent,
          bulkDiff, fullOutput, scanAt, currentFile, currentBuffer, fragments, dpc,
          cachedDiff, staged, cmds, backend, stagings,
          cache, maxSize, history>>

orchVars == <<variant, apiKey, enableDeep, fastResp, deepResp, inv, fast, deep,
              results, calls, view, errorsShown, runner>>

parseVars == <<input, content, parsed, ppc, path, logged>>

sortVars == <<sortOrder, unsorted, sortResult, spc>>

gitVars == <<repository, indexChanges, commands, gpc, statusMap, fullDiffMap,
             smartChanges, analysis, classified, diffReads, spawned, gitLog,
             totalOutput, isStatFallback, diffText, warned, prompt>>

applyVars == <<scm, inputBox, boxWrites, applied>>

pairVars == <<runs, shown, requestsSent>>

scanVars == <<bulkDiff, fullOutput, scanAt, currentFile, currentBuffer, fragments, dpc>>

cacheVars == <<cachedDiff, staged, cmds, backend, stagings>>

lruVars == <<cache, maxSize, history>>

\* what the actions of one part leave alone
nonOrchVars == <<parseVars, sortVars, gitVars, applyVars, pairVars, scanVars, cacheVars, lruVars>>
nonParseVars == <<orchVars, sortVars, gitVars, applyVars, pairVars, scanVars, cacheVars, lruVars>>
nonSortVars == <<orchVars, parseVars, gitVars, applyVars, pairVars, scanVars, cacheVars, lruVars>>
nonGitVars == <<orchVars, parseVars, sortVars, applyVars, pairVars, scanVars, cacheVars, lruVars>>
nonApplyVars == <<orchVars, parseVars, sortVars, gitVars, pairVars, scanVars, cacheVars, lruVars>>
nonPairVars == <<orchVars, parseVars, sortVars, gitVars, applyVars, scanVars, cacheVars, lruVars>>
nonScanVars == <<orchVars, parseVars, sortVars, gitVars, applyVars, pairVars, cacheVars, lruVars>>
nonCacheVars == <<orchVars, parseVars, sortVars, gitVars, applyVars, pairVars, scanVars, lruVars>>
nonLruVars == <<orchVars, parseVars, sortVars, gitVars, applyVars, pairVars, scanVars, cacheVars>>

(***************************************************************************)
(* Bounds                                                                  *)
(***************************************************************************)
\* most calls made on an LRUCache
MaxOps == 4
\* largest maxSize of an LRUCache
MaxSize == 2
\* most runs of previewSmartDiff, generateSmart and generateDirect
MaxCommands == 2
\* most changes of the index between and during the runs
MaxStagings == 1
\* most files of a bulk diff that parseDiffOutput scans
MaxBlocks == 2
\* most lines of a file's diff after its header line
MaxBody == 1
\* most runAiGeneration invocations that overlap
MaxRuns == 2
\* most applyCommit calls in a row
MaxApplies == 2
\* most staged files of a changeset below the ceiling of the file count
MaxFiles == 2
\* longest option list handed to sortOptions
MaxSort == 3
\* longest option list the fast backend returns
MaxFast == 2
\* longest option list the deep backend returns
MaxDeep == 1
\* most elements of the JSON array in a response text
MaxElements == 2
\* longest response text made of arbitrary punctuation
MaxRaw == 3

(***************************************************************************)
(* Values                                                                  *)
(***************************************************************************)
\* type values the backends are made to answer with ("Custom" is in no
\* priority list)
TypeInputs == {"Emoji", "Conventional", "Detailed", "Custom"}

\* a JSON null element of a parsed array, and JavaScript's undefined
Null == [type |-> "<null>", message |-> -1]
Undefined == [type |-> "<undefined>", message |-> -2]

\* interface CommitOption; the message text is identified by a number
CommitOption(t, m) == [type |-> t, message |-> m]

IsOption(e) == e # Null /\ e # Undefined

Range(s) == {s[i] : i \in 1..Len(s)}

Last(s) == s[Len(s)]

SeqsUpTo(S, n) == UNION {[1..k -> S] : k \in 0..n}

\* the elements of the i-th answer of a backend: JSON objects with distinct
\* message texts, or JSON null
Items(base, ts) ==
    [i \in 1..Len(ts) |->
        IF ts[i] = "<null>" THEN Null ELSE CommitOption(ts[i], base + i)]

FailureKinds == {"network", "http", "empty", "unparsable"}

\* what a backend may answer: a failure, or a JSON array
Responses(base, n) ==
    {[kind |-> k, items |-> <<>>] : k \in FailureKinds}
    \cup {[kind |-> "ok", items |-> Items(base, ts)] :
            ts \in SeqsUpTo(TypeInputs \cup {"<null>"}, n)}

NoResponse == [kind |-> "empty", items |-> <<>>]

(***************************************************************************)
(* Sorter                                                                  *)
(***************************************************************************)
\* const order of generateHybrid's AiService
orderHybrid == <<"Emoji", "Conventional", "Smart", "Detailed">>
\* const order of the latest AiService (generate)
orderGenerate == <<"Emoji", "StandardShort", "Conventional", "Smart">>

\* order.indexOf(type), -1 replaced by 99
rank(order, e) ==
    IF \E i \in 1..Len(order) : order[i] = e.type
    THEN (CHOOSE i \in 1..Len(order) : order[i] = e.type) - 1
    ELSE 99

\* the comparator with its operands exchanged
compare_mut(order, a, b) == rank(order, b) - rank(order, a)

\* the comparator (a, b) => ia - ib
compare(order, a, b) == rank(order, a) - rank(order, b)

RECURSIVE insertSorted(_, _, _)
insertSorted(order, s, e) ==
    IF s = <<>> THEN <<e>>
    ELSE IF compare(order, Head(s), e) <= 0
         THEN <<Head(s)>> \o insertSorted(order, Tail(s), e)
         ELSE <<e>> \o s

RECURSIVE stableSort(_, _)
stableSort(order, s) ==
    IF s = <<>> THEN <<>>
    ELSE insertSorted(order, stableSort(order, SubSeq(s, 1, Len(s) - 1)), Last(s))

\* Array.prototype.sort with the comparator: undefined elements go last and
\* are never compared; comparing a null element throws TypeError (a.type of
\* null), which leaves the array as it was
sortOptions(order, options) ==
    LET defined == SelectSeq(options, LAMBDA e : e # Undefined)
        undef == SelectSeq(options, LAMBDA e : e = Undefined)
    IN  IF Len(defined) >= 2 /\ Null \in Range(defined)
        THEN [threw |-> TRUE, value |-> options]
        ELSE [threw |-> FALSE, value |-> stableSort(order, defined) \o undef]

(***************************************************************************)
(* Backend calls                                                           *)
(***************************************************************************)
\* callApi of generateHybrid's AiService: every failure becomes []
callApi(resp) ==
    IF resp.kind = "ok" THEN resp.items ELSE <<>>

\* callApi of the latest AiService throws on a network or HTTP error, returns
\* [] on empty content, and keeps the elements parseResponse validates
callApi3_mut(resp) ==
    IF resp.kind # "ok"
    THEN [threw |-> TRUE, value |-> <<>>]
    ELSE [threw |-> FALSE, value |-> SelectSeq(resp.items, IsOption)]

callApi3(resp) ==
    IF resp.kind \in {"network", "http"}
    THEN [threw |-> TRUE, value |-> <<>>]
    ELSE IF resp.kind = "ok"
         THEN [threw |-> FALSE, value |-> SelectSeq(resp.items, IsOption)]
         ELSE [threw |-> FALSE, value |-> <<>>]

\* fetchDetailedOption: options[0], undefined for an empty list
fetchDetailedOption(resp) ==
    LET options == callApi(resp)
    IN  IF options = <<>> THEN Undefined ELSE options[1]

(***************************************************************************)
(* Orchestrator                                                            *)
(***************************************************************************)
\* results.splice(0, 0, ...options)
spliceFront_mut(res, options) == options

\* the options replace what the accumulator held behind them
spliceFront_mut2(res, options) ==
    options \o SubSeq(res, Len(options) + 1, Len(res))

spliceFront(res, options) == options \o res

\* the tasks handed to Promise.allSettled
tasks == {t \in {"fast", "deep"} :
            (t = "fast" /\ fast # "none") \/ (t = "deep" /\ deep # "none")}

taskState(t) == IF t = "fast" THEN fast ELSE deep

\* Promise.allSettled(tasks) is fulfilled
allSettled_mut == \E t \in tasks : taskState(t) = "settled"

allSettled == \A t \in tasks : taskState(t) = "settled"

OrchInit ==
    /\ variant \in {"hybrid", "generate"}
    /\ apiKey \in BOOLEAN
    /\ fastResp \in Responses(0, MaxFast)
    /\ IF variant = "hybrid"
       THEN /\ enableDeep \in BOOLEAN
            /\ deepResp \in Responses(100, MaxDeep)
       ELSE /\ enableDeep = FALSE
            /\ deepResp = NoResponse
    /\ inv = "init"
    /\ fast = "none"
    /\ deep = "none"
    /\ results = <<>>
    /\ calls = <<>>
    /\ view = <<>>
    /\ errorsShown = 0
    /\ runner = "awaiting"

\* generateHybrid up to the await: the key check, then both requests issued
StartHybrid ==
    /\ variant = "hybrid"
    /\ inv = "init"
    /\ IF ~apiKey
       THEN /\ inv' = "rejected"
            /\ UNCHANGED <<fast, deep>>
       ELSE /\ inv' = "running"
            /\ fast' = "pending"
            /\ deep' = IF enableDeep THEN "pending" ELSE "none"
    /\ UNCHANGED <<variant, apiKey, enableDeep, fastResp, deepResp, results,
                   calls, view, errorsShown, runner>>

\* fastTask's then-handler: splice in front, publish
FastComplete ==
    /\ variant = "hybrid"
    /\ fast = "pending"
    /\ LET options == callApi(fastResp)
           res == spliceFront(results, options)
       IN  /\ results' = res
           /\ calls' = Append(calls, res)
           /\ view' = res
    /\ fast' = "settled"
    /\ UNCHANGED <<variant, apiKey, enableDeep, fastResp, deepResp, inv, deep,
                   errorsShown, runner>>

\* reasoningTask's then-handler: push, sort, publish; a throwing sort is
\* swallowed by the task's catch
DeepComplete ==
    /\ variant = "hybrid"
    /\ deep = "pending"
    /\ LET option == fetchDetailedOption(deepResp)
           sorted == sortOptions(orderHybrid, Append(results, option))
       IN  /\ results' = sorted.value
           /\ IF sorted.threw
              THEN UNCHANGED <<calls, view>>
              ELSE /\ calls' = Append(calls, sorted.value)
                   /\ view' = sorted.value
    /\ deep' = "settled"
    /\ UNCHANGED <<variant, apiKey, enableDeep, fastResp, deepResp, inv, fast,
                   errorsShown, runner>>

\* await Promise.allSettled(tasks) returns and generateHybrid resolves
ResolveHybrid ==
    /\ variant = "hybrid"
    /\ inv = "running"
    /\ allSettled
    /\ inv' = "resolved"
    /\ UNCHANGED <<variant, apiKey, enableDeep, fastResp, deepResp, fast, deep,
                   results, calls, view, errorsShown, runner>>

\* generate up to the await: the key check, then the one request issued
StartGenerate ==
    /\ variant = "generate"
    /\ inv = "init"
    /\ IF ~apiKey
       THEN /\ inv' = "rejected"
            /\ UNCHANGED fast
       ELSE /\ inv' = "running"
            /\ fast' = "pending"
    /\ UNCHANGED <<variant, apiKey, enableDeep, fastResp, deepResp, deep,
                   results, calls, view, errorsShown, runner>>

\* generate after the await: sort and publish, or re-throw callApi's error
GenerateComplete ==
    /\ variant = "generate"
    /\ fast = "pending"
    /\ LET r == callApi3(fastResp)
           sorted == sortOptions(orderGenerate, r.value)
       IN  IF r.threw
           THEN /\ inv' = "rejected"
                /\ UNCHANGED <<results, calls, view>>
           ELSE /\ inv' = "resolved"
                /\ results' = sorted.value
                /\ calls' = Append(calls, sorted.value)
                /\ view' = sorted.value
    /\ fast' = "settled"
    /\ UNCHANGED <<variant, apiKey, enableDeep, fastResp, deepResp, deep,
                   errorsShown, runner>>

\* runAiGeneration after the await: focus the view, or show the error
RunnerFinish ==
    /\ runner = "awaiting"
    /\ inv \in {"resolved", "rejected"}
    /\ IF inv = "rejected"
       THEN /\ errorsShown' = errorsShown + 1
            /\ runner' = "failed"
       ELSE /\ runner' = "focused"
            /\ UNCHANGED errorsShown
    /\ UNCHANGED <<variant, apiKey, enableDeep, fastResp, deepResp, inv, fast,
                   deep, results, calls, view>>

(***************************************************************************)
(* Response parser: characters                                             *)
(***************************************************************************)
\* a text is a sequence of one-character strings
DQ == "\""
BS == "\\"
NL == "\n"

\* what the regular expressions' \s and String.prototype.trim treat as space
WS == {" ", "\n", "\t", "\r"}

Digits == {"0", "1", "2", "3", "4", "5", "6", "7", "8", "9"}

\* s[i], or "" past either end
at(s, i) == IF i >= 1 /\ i <= Len(s) THEN s[i] ELSE ""

\* s from index i to its end
from(s, i) == SubSeq(s, i, Len(s))

\* the first index j >= i at which s has no white space (Len(s)+1 at the end)
skipWs(s, i) ==
    CHOOSE j \in i..(Len(s) + 1) :
        /\ at(s, j) \notin WS
        /\ \A k \in i..(j - 1) : s[k] \in WS

\* the literal text lit stands in s at index i
hasAt(s, i, lit) ==
    /\ i + Len(lit) - 1 <= Len(s)
    /\ \A k \in 1..Len(lit) : s[i + k - 1] = lit[k]

\* lower-casing, for the i flag of /(3 backticks)json/gi
lower(c) ==
    CASE c = "J" -> "j" [] c = "S" -> "s" [] c = "O" -> "o" [] c = "N" -> "n"
      [] OTHER -> c

hasAtIgnoreCase(s, i, lit) ==
    /\ i + Len(lit) - 1 <= Len(s)
    /\ \A k \in 1..Len(lit) : lower(s[i + k - 1]) = lit[k]

\* the backtick character (a TLA+ string cannot hold it)
BT == "backtick"

FENCE == <<BT, BT, BT>>
FENCE_JSON == <<BT, BT, BT, "j", "s", "o", "n">>

\* the least index of a set of indices, 0 if there is none
firstIndex(S) ==
    IF S = {} THEN 0 ELSE CHOOSE j \in S : \A k \in S : j <= k

\* content.replace(/(3 backticks)json/gi, ""), on s from index i: every
\* match, left to right, is dropped
RECURSIVE removeFenceJson(_, _)
removeFenceJson(s, i) ==
    LET n == firstIndex({j \in i..Len(s) : hasAtIgnoreCase(s, j, FENCE_JSON)})
    IN  IF n = 0 THEN from(s, i)
        ELSE SubSeq(s, i, n - 1) \o removeFenceJson(s, n + Len(FENCE_JSON))

\* .replace(/(3 backticks)/g, "")
RECURSIVE removeFence(_, _)
removeFence(s, i) ==
    LET n == firstIndex({j \in i..Len(s) : hasAt(s, j, FENCE)})
    IN  IF n = 0 THEN from(s, i)
        ELSE SubSeq(s, i, n - 1) \o removeFence(s, n + Len(FENCE))

\* .trim()
trim(s) ==
    IF \A k \in 1..Len(s) : s[k] \in WS THEN <<>>
    ELSE LET a == CHOOSE j \in 1..Len(s) :
                    s[j] \notin WS /\ \A k \in 1..(j - 1) : s[k] \in WS
             b == CHOOSE j \in 1..Len(s) :
                    s[j] \notin WS /\ \A k \in (j + 1)..Len(s) : s[k] \in WS
         IN  SubSeq(s, a, b)

\* .replace(/,\s*]/g, "]") and .replace(/,\s*}/g, "}"): close is "]" or "}"
RECURSIVE stripTrailingComma(_, _, _)
stripTrailingComma(s, i, close) ==
    LET n == firstIndex({j \in i..Len(s) :
                            s[j] = "," /\ at(s, skipWs(s, j + 1)) = close})
    IN  IF n = 0 THEN from(s, i)
        ELSE SubSeq(s, i, n - 1) \o <<close>>
             \o stripTrailingComma(s, skipWs(s, n + 1) + 1, close)

\* cleaned.match(/\[[\s\S]*\]/): from the first "[" to the last "]" after it
matchArray(s) ==
    IF \E a, b \in 1..Len(s) : a < b /\ s[a] = "[" /\ s[b] = "]"
    THEN LET a == CHOOSE x \in 1..Len(s) :
                    s[x] = "[" /\ \A k \in 1..(x - 1) : s[k] # "["
             b == CHOOSE x \in 1..Len(s) :
                    s[x] = "]" /\ \A k \in (x + 1)..Len(s) : s[k] # "]"
         IN  IF a < b THEN [found |-> TRUE, text |-> SubSeq(s, a, b)]
             ELSE [found |-> FALSE, text |-> s]
    ELSE [found |-> FALSE, text |-> s]

(***************************************************************************)
(* Response parser: JSON.parse                                             *)
(***************************************************************************)
\* characters JSON forbids unescaped inside a string
Control == {"\n", "\t", "\r"}

\* the characters that may follow a backslash in a JSON string (\uXXXX is
\* not produced by any input below)
Escapes == {DQ, BS, "/", "n", "t", "r"}

unescape(c) ==
    CASE c = "n" -> "\n" [] c = "t" -> "\t" [] c = "r" -> "\r" [] OTHER -> c

\* j is just after an opening quote: the index after the closing quote, 0 if
\* the string is not terminated or ill-formed
RECURSIVE strEnd(_, _)
strEnd(s, j) ==
    LET c == at(s, j)
    IN  IF c = "" THEN 0
        ELSE IF c = DQ THEN j + 1
        ELSE IF c = BS
             THEN IF at(s, j + 1) \in Escapes THEN strEnd(s, j + 2) ELSE 0
        ELSE IF c \in Control THEN 0
        ELSE strEnd(s, j + 1)

\* the value of the well-formed string whose first character is at j
RECURSIVE strValue(_, _)
strValue(s, j) ==
    LET c == at(s, j)
    IN  IF c = DQ \/ c = "" THEN <<>>
        ELSE IF c = BS THEN <<unescape(at(s, j + 1))>> \o strValue(s, j + 2)
        ELSE <<c>> \o strValue(s, j + 1)

digitsEnd(s, i) ==
    CHOOSE j \in i..(Len(s) + 1) :
        /\ at(s, j) \notin Digits
        /\ \A k \in i..(j - 1) : s[k] \in Digits

\* a JSON number: -? (0 | [1-9][0-9]*) (. [0-9]+)? ([eE] [+-]? [0-9]+)?
numEnd(s, i) ==
    LET digitsFrom(x) == IF at(s, x) \in Digits THEN digitsEnd(s, x) ELSE 0
        exponent(c) ==
            IF c = 0 THEN 0
            ELSE IF at(s, c) \in {"e", "E"}
                 THEN digitsFrom(IF at(s, c + 1) \in {"+", "-"}
                                 THEN c + 2 ELSE c + 1)
                 ELSE c
        fraction(b) ==
            IF b = 0 THEN 0
            ELSE IF at(s, b) = "." THEN digitsFrom(b + 1) ELSE b
        integer(a) == IF at(s, a) = "0" THEN a + 1 ELSE digitsFrom(a)
    IN  exponent(fraction(integer(IF at(s, i) = "-" THEN i + 1 ELSE i)))

LIT_TRUE == <<"t", "r", "u", "e">>
LIT_FALSE == <<"f", "a", "l", "s", "e">>
LIT_NULL == <<"n", "u", "l", "l">>

\* the index after the JSON value that starts at i, 0 if there is none
RECURSIVE valueEnd(_, _)
RECURSIVE elementsEnd(_, _)
RECURSIVE membersEnd(_, _)
valueEnd(s, i) ==
    LET c == at(s, i)
        j == skipWs(s, i + 1)
    IN  CASE c = DQ -> strEnd(s, i + 1)
          [] c = "[" -> IF at(s, j) = "]" THEN j + 1 ELSE elementsEnd(s, j)
          [] c = "{" -> IF at(s, j) = "}" THEN j + 1 ELSE membersEnd(s, j)
          [] c \in Digits \cup {"-"} -> numEnd(s, i)
          [] c = "t" -> IF hasAt(s, i, LIT_TRUE) THEN i + 4 ELSE 0
          [] c = "f" -> IF hasAt(s, i, LIT_FALSE) THEN i + 5 ELSE 0
          [] c = "n" -> IF hasAt(s, i, LIT_NULL) THEN i + 4 ELSE 0
          [] OTHER -> 0

\* j is at the first character of an array element
elementsEnd(s, j) ==
    LET separator(k) ==
            IF at(s, k) = "," THEN elementsEnd(s, skipWs(s, k + 1))
            ELSE IF at(s, k) = "]" THEN k + 1
            ELSE 0
        element(e) == IF e = 0 THEN 0 ELSE separator(skipWs(s, e))
    IN  element(valueEnd(s, j))

\* j is at the first character of an object member
membersEnd(s, j) ==
    LET separator(k) ==
            IF at(s, k) = "," THEN membersEnd(s, skipWs(s, k + 1))
            ELSE IF at(s, k) = "}" THEN k + 1
            ELSE 0
        memberValue(ve) == IF ve = 0 THEN 0 ELSE separator(skipWs(s, ve))
        colon(c) ==
            IF at(s, c) # ":" THEN 0
            ELSE memberValue(valueEnd(s, skipWs(s, c + 1)))
        memberKey(ke) == IF ke = 0 THEN 0 ELSE colon(skipWs(s, ke))
    IN  IF at(s, j) # DQ THEN 0 ELSE memberKey(strEnd(s, j + 1))

\* the start indices of the elements of the well-formed array whose first
\* element (or closing bracket) is at j
RECURSIVE elementStarts(_, _)
elementStarts(s, j) ==
    LET others(k) ==
            IF at(s, k) = "," THEN elementStarts(s, skipWs(s, k + 1)) ELSE <<>>
    IN  IF at(s, j) = "]" THEN <<>>
        ELSE <<j>> \o others(skipWs(s, valueEnd(s, j)))

\* the members (key, index of the value) of the well-formed object whose
\* first member (or closing brace) is at j
RECURSIVE members(_, _)
members(s, j) ==
    LET others(k) ==
            IF at(s, k) = "," THEN members(s, skipWs(s, k + 1)) ELSE <<>>
        member(v) ==
            <<[key |-> strValue(s, j + 1), v |-> v]>>
            \o others(skipWs(s, valueEnd(s, v)))
    IN  IF at(s, j) = "}" THEN <<>>
        ELSE member(skipWs(s, skipWs(s, strEnd(s, j + 1)) + 1))

K_TYPE == <<"t", "y", "p", "e">>
K_DESCRIPTION == <<"d", "e", "s", "c", "r", "i", "p", "t", "i", "o", "n">>
K_MESSAGE == <<"m", "e", "s", "s", "a", "g", "e">>

\* a property of a parsed value as the code can observe it
Absent == [kind |-> "absent", str |-> <<>>]
StringField(str) == [kind |-> "string", str |-> str]
OtherField == [kind |-> "other", str |-> <<>>]

\* obj[name] of the object with the members ms: the last member of that name
property(s, ms, name) ==
    LET field(v) ==
            IF at(s, v) = DQ THEN StringField(strValue(s, v + 1))
            ELSE OtherField
        lastOf(hits) ==
            IF hits = {} THEN Absent
            ELSE field(ms[CHOOSE n \in hits : \A m \in hits : m <= n].v)
    IN  lastOf({n \in 1..Len(ms) : ms[n].key = name})

\* a parsed value: whether typeof is "object" (and it is not null), and the
\* three properties of a CommitOption
parsedValue(s, i) ==
    LET object(ms) ==
            [obj |-> TRUE,
             type |-> property(s, ms, K_TYPE),
             description |-> property(s, ms, K_DESCRIPTION),
             message |-> property(s, ms, K_MESSAGE)]
    IN  IF at(s, i) = "{" THEN object(members(s, skipWs(s, i + 1)))
        ELSE [obj |-> at(s, i) = "[",
              type |-> Absent, description |-> Absent, message |-> Absent]

\* JSON.parse(text): throws SyntaxError, or yields an array (its elements),
\* or another value (as the one element)
JSONparse(text) ==
    LET array(starts) ==
            [threw |-> FALSE, kind |-> "array",
             elems |-> [n \in 1..Len(starts) |-> parsedValue(text, starts[n])]]
        value(i, e) ==
            IF e = 0 \/ skipWs(text, e) # Len(text) + 1
            THEN [threw |-> TRUE, kind |-> "none", elems |-> <<>>]
            ELSE IF at(text, i) = "["
                 THEN array(elementStarts(text, skipWs(text, i + 1)))
                 ELSE [threw |-> FALSE,
                       kind |-> IF at(text, i) = "{" \/ at(text, i) = "n"
                                THEN "object" ELSE "other",
                       elems |-> <<parsedValue(text, i)>>]
        valueAt(i) == value(i, valueEnd(text, i))
    IN  valueAt(skipWs(text, 1))

(***************************************************************************)
(* Response parser: parseResponse, isValidCommitOption, fallbackParse      *)
(***************************************************************************)
\* obj && typeof obj === "object" && typeof obj.type === "string"
\*     && typeof obj.message === "string"
isValidCommitOption(obj) ==
    /\ obj.obj
    /\ obj.type.kind = "string"
    /\ obj.message.kind = "string"

\* the first index j >= i with s[j] in the set cs, 0 if there is none
nextOf(s, i, cs) == firstIndex({j \in i..Len(s) : s[j] \in cs})

\* "key"\s*:\s*"[^"]{min,}" matched at i: the index after it, 0 if no match
keyValueEnd(s, i, key, min) ==
    LET closed(o, e) == IF e = 0 \/ e - o - 1 < min THEN 0 ELSE e + 1
        opened(o) ==
            IF at(s, o) # DQ THEN 0 ELSE closed(o, nextOf(s, o + 1, {DQ}))
        colon(c) == IF at(s, c) # ":" THEN 0 ELSE opened(skipWs(s, c + 1))
        keyAt(lit) ==
            IF ~hasAt(s, i, lit) THEN 0 ELSE colon(skipWs(s, i + Len(lit)))
    IN  keyAt(<<DQ>> \o key \o <<DQ>>)

\* \s*,\s* matched at i: the index after it, 0 if no match
commaEnd(s, i) ==
    LET comma(k) == IF at(s, k) # "," THEN 0 ELSE skipWs(s, k + 1)
    IN  IF i = 0 THEN 0 ELSE comma(skipWs(s, i))

\* "type":"..","description":"..","message":".." matched at c
coreEnd(s, c) ==
    LET messageAt(b) == IF b = 0 THEN 0 ELSE keyValueEnd(s, b, K_MESSAGE, 0)
        descriptionAt(a) ==
            IF a = 0 THEN 0
            ELSE messageAt(commaEnd(s, keyValueEnd(s, a, K_DESCRIPTION, 0)))
    IN  descriptionAt(commaEnd(s, keyValueEnd(s, c, K_TYPE, 1)))

\* objectPattern matched at the "{" at p: the index of the closing "}", 0 if
\* no match. The leading [^{}]* is greedy, so the rightmost start of the
\* three pairs is tried first; the trailing [^{}]* must reach a "}".
matchObjectAt(s, p) ==
    LET brace(k) == IF at(s, k) = "}" THEN k ELSE 0
        tail(e) == IF e = 0 THEN 0 ELSE brace(nextOf(s, e, {"{", "}"}))
        closing(c) == tail(coreEnd(s, c))
        rightmost(good) ==
            IF good = {} THEN 0
            ELSE closing(CHOOSE c \in good : \A d \in good : d <= c)
        upTo(nb) ==
            rightmost({c \in (p + 1)..(IF nb = 0 THEN Len(s) ELSE nb - 1) :
                          closing(c) # 0})
    IN  upTo(nextOf(s, p + 1, {"{", "}"}))

\* content.match(objectPattern) with the g flag: the matches from i on
RECURSIVE objectMatches(_, _)
objectMatches(s, i) ==
    LET match(p, e) == <<SubSeq(s, p, e)>> \o objectMatches(s, e + 1)
        matchAt(p) == IF p = 0 THEN <<>> ELSE match(p, matchObjectAt(s, p))
    IN  matchAt(firstIndex({j \in i..Len(s) :
                               s[j] = "{" /\ matchObjectAt(s, j) # 0}))

\* the loop body of fallbackParse lets the SyntaxError of a match escape
RECURSIVE collect_mut(_)
collect_mut(matches) ==
    LET step(r, rest) ==
            IF r.threw \/ rest.threw THEN [threw |-> TRUE, value |-> <<>>]
            ELSE IF isValidCommitOption(r.elems[1])
                 THEN [threw |-> FALSE, value |-> <<r.elems[1]>> \o rest.value]
                 ELSE rest
    IN  IF matches = <<>> THEN [threw |-> FALSE, value |-> <<>>]
        ELSE step(JSONparse(Head(matches)), collect_mut(Tail(matches)))

\* the loop of fallbackParse: parse each match, ignore the ones that fail,
\* keep the valid ones
RECURSIVE collect(_)
collect(matches) ==
    LET step(r, rest) ==
            IF r.threw THEN rest
            ELSE IF isValidCommitOption(r.elems[1])
                 THEN [threw |-> FALSE, value |-> <<r.elems[1]>> \o rest.value]
                 ELSE rest
    IN  IF matches = <<>> THEN [threw |-> FALSE, value |-> <<>>]
        ELSE step(JSONparse(Head(matches)), collect(Tail(matches)))

fallbackParse(text) == collect(objectMatches(text, 1))

\* the messages handed to Logger (model names and counts left out)
LOG_API == "API call exception"
LOG_PARSE == "AI response parse failed, trying fallback"
LOG_FALLBACK_FAILED == "fallback parse failed too"
LOG_FALLBACK_OK == "fallback parse succeeded"

\* what fallbackParse logs about its results
fallbackLog(found) ==
    IF found = <<>> THEN LOG_FALLBACK_FAILED ELSE LOG_FALLBACK_OK

\* the text handed to JSON.parse
cleanedText(text) ==
    LET stripped == trim(removeFence(removeFenceJson(text, 1), 1))
        noComma == stripTrailingComma(stripTrailingComma(stripped, 1, "]"), 1, "}")
    IN  matchArray(noComma).text

parseResponse(text) ==
    LET caught(fb) ==
            [threw |-> fb.threw, value |-> fb.value, path |-> "fallback",
             log |-> IF fb.threw THEN <<LOG_PARSE>>
                     ELSE <<LOG_PARSE, fallbackLog(fb.value)>>]
        try(r) ==
            IF r.threw THEN caught(fallbackParse(text))
            ELSE IF r.kind = "array"
                 THEN [threw |-> FALSE, path |-> "array", log |-> <<>>,
                       value |-> SelectSeq(r.elems, isValidCommitOption)]
            ELSE IF r.kind = "object" /\ isValidCommitOption(r.elems[1])
                 THEN [threw |-> FALSE, path |-> "object", log |-> <<>>,
                       value |-> r.elems]
            ELSE [threw |-> FALSE, path |-> "other", log |-> <<>>,
                  value |-> <<>>]
    IN  try(JSONparse(cleanedText(text)))

(***************************************************************************)
(* Response texts                                                          *)
(***************************************************************************)
T_EMOJI == <<"E", "m", "o", "j", "i">>
T_SMART == <<"S", "m", "a", "r", "t">>

\* an element of the array the backend writes
Object(t, d, m) == [obj |-> TRUE, type |-> t, description |-> d, message |-> m]
NullElement == [obj |-> FALSE, type |-> Absent, description |-> Absent,
                message |-> Absent]

ElementInputs ==
    { Object(StringField(T_EMOJI), StringField(<<"d">>), StringField(<<"f", "i", "x">>)),
      Object(StringField(T_SMART), StringField(<<>>), StringField(<<"a", NL, "b">>)),
      Object(StringField(T_EMOJI), StringField(<<"d">>), StringField(<<"a", ",", "}">>)),
      Object(StringField(T_SMART), StringField(<<"d">>), StringField(<<BT, BT, BT, "x">>)),
      Object(StringField(T_SMART), StringField(<<"d">>),
             StringField(<<"x", DQ, "{", "}", DQ>>)),
      Object(StringField(<<>>), StringField(<<"d">>), StringField(<<>>)),
      Object(OtherField, StringField(<<"d">>), StringField(<<"f", "i", "x">>)),
      Object(StringField(T_EMOJI), StringField(<<"d">>), Absent),
      NullElement }

\* how the text around the elements is laid out
Shapes ==
    { [wrap |-> "bare", pretty |-> FALSE, tail |-> "none"],
      [wrap |-> "bare", pretty |-> TRUE, tail |-> "none"],
      [wrap |-> "fenced", pretty |-> TRUE, tail |-> "none"],
      [wrap |-> "FENCED", pretty |-> FALSE, tail |-> "none"],
      [wrap |-> "prose", pretty |-> FALSE, tail |-> "none"],
      [wrap |-> "reference", pretty |-> FALSE, tail |-> "none"],
      [wrap |-> "bare", pretty |-> TRUE, tail |-> "comma"],
      [wrap |-> "prose", pretty |-> FALSE, tail |-> "truncated"],
      [wrap |-> "bare", pretty |-> FALSE, tail |-> "junk"],
      [wrap |-> "bare", pretty |-> FALSE, tail |-> "single"] }

\* the characters of the arbitrary short texts
RawChars == {"[", "]", "{", "}", DQ, ","}

RawShape == [wrap |-> "raw", pretty |-> FALSE, tail |-> "none"]

\* a response text: an array of elements laid out in some shape, or an
\* arbitrary short text
Inputs ==
    {[elems |-> es, shape |-> sh, text |-> <<>>] :
        es \in SeqsUpTo(ElementInputs, MaxElements), sh \in Shapes}
    \cup {[elems |-> <<>>, shape |-> RawShape, text |-> t] :
            t \in SeqsUpTo(RawChars, MaxRaw)}

\* JSON.stringify of a string
RECURSIVE escaped(_)
escaped(str) ==
    IF str = <<>> THEN <<>>
    ELSE LET c == Head(str)
         IN  (CASE c = DQ -> <<BS, DQ>>
                [] c = BS -> <<BS, BS>>
                [] c = "\n" -> <<BS, "n">>
                [] c = "\t" -> <<BS, "t">>
                [] c = "\r" -> <<BS, "r">>
                [] OTHER -> <<c>>) \o escaped(Tail(str))

quoted(str) == <<DQ>> \o escaped(str) \o <<DQ>>

RECURSIVE join(_, _)
join(parts, sep) ==
    IF parts = <<>> THEN <<>>
    ELSE IF Len(parts) = 1 THEN parts[1]
    ELSE parts[1] \o sep \o join(Tail(parts), sep)

\* the text of one member, nothing for an absent property
memberText(key, f, pretty) ==
    LET colon == IF pretty THEN <<":", " ">> ELSE <<":">>
    IN  IF f.kind = "absent" THEN <<>>
        ELSE <<quoted(key) \o colon
               \o (IF f.kind = "string" THEN quoted(f.str) ELSE <<"5">>)>>

elementText(e, pretty) ==
    IF ~e.obj THEN LIT_NULL
    ELSE <<"{">>
         \o join(memberText(K_TYPE, e.type, pretty)
                 \o memberText(K_DESCRIPTION, e.description, pretty)
                 \o memberText(K_MESSAGE, e.message, pretty),
                 IF pretty THEN <<",", " ">> ELSE <<",">>)
         \o <<"}">>

\* a fragment cut off in the middle of its message
TRUNCATED ==
    <<"{">> \o quoted(K_TYPE) \o <<":">> \o quoted(<<"D">>) \o <<",">>
    \o quoted(K_DESCRIPTION) \o <<":">> \o quoted(<<"d">>) \o <<",">>
    \o quoted(K_MESSAGE) \o <<":", DQ, "u", "n">>

\* a fragment with stray text after its message
JUNK ==
    <<"{">> \o quoted(K_TYPE) \o <<":">> \o quoted(<<"J">>) \o <<",">>
    \o quoted(K_DESCRIPTION) \o <<":">> \o quoted(<<>>) \o <<",">>
    \o quoted(K_MESSAGE) \o <<":">> \o quoted(<<"c">>) \o <<" ", "o", "}">>

bodyText(elems, sh) ==
    LET texts == [i \in 1..Len(elems) |-> elementText(elems[i], sh.pretty)]
        sep == IF sh.pretty THEN <<",", NL>> ELSE <<",">>
        open == IF sh.pretty THEN <<"[", NL>> ELSE <<"[">>
        close == IF sh.pretty THEN <<NL, "]">> ELSE <<"]">>
    IN  CASE sh.tail = "none" -> open \o join(texts, sep) \o close
          [] sh.tail = "comma" -> open \o join(texts, sep) \o <<",">> \o close
          [] sh.tail = "truncated" -> open \o join(Append(texts, TRUNCATED), sep)
          [] sh.tail = "junk" -> open \o join(Append(texts, JUNK), sep) \o close
          [] sh.tail = "single" -> IF texts = <<>> THEN <<>> ELSE texts[1]

wrapText(body, wrap) ==
    CASE wrap = "bare" -> body
      [] wrap = "fenced" ->
            <<BT, BT, BT, "j", "s", "o", "n", NL>> \o body \o <<NL, BT, BT, BT>>
      [] wrap = "FENCED" ->
            <<BT, BT, BT, "J", "S", "O", "N", NL>> \o body \o <<NL, BT, BT, BT, NL>>
      [] wrap = "prose" ->
            <<"H", "i", ":", NL, BT, BT, BT, "j", "s", "o", "n", NL>> \o body
            \o <<NL, BT, BT, BT, NL, "o", "k", ".">>
      [] wrap = "reference" ->
            <<"s", "e", "e", " ", "[", "1", "]", ":", NL>> \o body

render(in) ==
    IF in.shape.wrap = "raw" THEN in.text
    ELSE wrapText(bodyText(in.elems, in.shape), in.shape.wrap)

(***************************************************************************)
(* Change collector: paths, diffs and entry texts (GitService)             *)
(***************************************************************************)
\* MAX_FILES_FOR_DETAIL of analyzeChanges
MAX_FILES_FOR_DETAIL == 100
\* MAX_CHARS of formatSmartDiff
MAX_CHARS == 200000
\* a newly added file of more than NEW_FILE_LINES diff lines keeps its first
\* NEW_FILE_HEAD and its last NEW_FILE_TAIL lines
NEW_FILE_LINES == 50
NEW_FILE_HEAD == 25
NEW_FILE_TAIL == 25
\* any other file of more than MAX_LINES diff lines keeps its first
\* HEAD_LINES and its last TAIL_LINES lines
MAX_LINES == 1000
HEAD_LINES == 800
TAIL_LINES == 50

\* a path is a sequence of characters, as a response text is
\* path.basename(relativePath): what follows the last "/"
basename(p) ==
    LET name(slash) == SubSeq(p, slash + 1, Len(p))
    IN  name(IF \E k \in 1..Len(p) : p[k] = "/"
             THEN CHOOSE k \in 1..Len(p) :
                    p[k] = "/" /\ \A m \in (k + 1)..Len(p) : p[m] # "/"
             ELSE 0)

\* path.extname(fileName): from the last "." on, nothing when there is no
\* "." or the only one starts the name
extname(name) ==
    LET ext(dot) == IF dot <= 1 THEN <<>> ELSE SubSeq(name, dot, Len(name))
    IN  ext(IF \E k \in 1..Len(name) : name[k] = "."
            THEN CHOOSE k \in 1..Len(name) :
                    name[k] = "." /\ \A m \in (k + 1)..Len(name) : name[m] # "."
            ELSE 0)

\* String.prototype.toLowerCase, on the capitals the paths below use
toLowerCase(s) ==
    [k \in 1..Len(s) |->
        CASE s[k] = "P" -> "p" [] s[k] = "N" -> "n" [] s[k] = "G" -> "g"
          [] OTHER -> s[k]]

\* String.prototype.endsWith
endsWith(s, suffix) ==
    /\ Len(suffix) <= Len(s)
    /\ SubSeq(s, Len(s) - Len(suffix) + 1, Len(s)) = suffix

LOCKFILES ==
    { <<"p", "a", "c", "k", "a", "g", "e", "-", "l", "o", "c", "k", ".", "j", "s", "o", "n">>,
      <<"y", "a", "r", "n", ".", "l", "o", "c", "k">>,
      <<"p", "n", "p", "m", "-", "l", "o", "c", "k", ".", "y", "a", "m", "l">> }

binaryExts ==
    { <<".", "p", "n", "g">>,
      <<".", "j", "p", "g">>,
      <<".", "j", "p", "e", "g">>,
      <<".", "g", "i", "f">>,
      <<".", "s", "v", "g">>,
      <<".", "i", "c", "o">>,
      <<".", "w", "o", "f", "f">>,
      <<".", "w", "o", "f", "f", "2">>,
      <<".", "t", "t", "f">>,
      <<".", "e", "o", "t">>,
      <<".", "m", "p", "4">>,
      <<".", "w", "e", "b", "m">>,
      <<".", "m", "p", "3">>,
      <<".", "w", "a", "v">>,
      <<".", "z", "i", "p">>,
      <<".", "t", "a", "r">>,
      <<".", "g", "z">>,
      <<".", "7", "z">>,
      <<".", "p", "d", "f">>,
      <<".", "e", "x", "e">>,
      <<".", "d", "l", "l">>,
      <<".", "s", "o">>,
      <<".", "d", "y", "l", "i", "b">>,
      <<".", "b", "i", "n">>,
      <<".", "d", "a", "t">>,
      <<".", "d", "b">>,
      <<".", "s", "q", "l", "i", "t", "e">> }

MINIFIED_SUFFIXES ==
    { <<".", "m", "i", "n", ".", "j", "s">>,
      <<".", "m", "i", "n", ".", "c", "s", "s">>,
      <<".", "m", "a", "p">> }

\* the decimal digits of a number in a template literal
RECURSIVE decimal(_)
decimal(v) ==
    LET digit(r) == <<"0", "1", "2", "3", "4", "5", "6", "7", "8", "9">>[r + 1]
    IN  IF v < 10 THEN <<digit(v)>> ELSE decimal(v \div 10) \o <<digit(v % 10)>>

\* a diff of one file as git prints it: lines of diff text. The text of
\* the lines is kept apart from their number: tag names the bytes, lines
\* are numbered 1..n and each is width characters long; adds and dels are
\* the numbers of lines that start with "+" (not "+++") and "-" (not "---")
Diff(tag, n, width, adds, dels) ==
    [tag |-> tag, n |-> n, width |-> width, adds |-> adds, dels |-> dels]

\* no cached diff (fullDiffMap.get gives undefined), or a failed read
NoDiff == Diff("none", 0, 0, 0, 0)

\* diffContent.length: the lines and the line feeds between them
diffChars(df) == df.n * df.width + df.n - 1

\* an entry text is a sequence of pieces: literal characters, a number
\* printed in decimal, or the lines lo..hi of a diff joined by line feeds
Text(chars) ==
    [k |-> "text", chars |-> chars, tag |-> "none", lo |-> 0, hi |-> 0,
     width |-> 0]
Number(v) ==
    [k |-> "number", chars |-> decimal(v), tag |-> "none", lo |-> v, hi |-> v,
     width |-> 0]
Lines(df, lo, hi) ==
    [k |-> "lines", chars |-> <<>>, tag |-> df.tag, lo |-> lo, hi |-> hi,
     width |-> df.width]

\* the length of a piece as a string
pieceLength(p) ==
    IF p.k = "lines" THEN (p.hi - p.lo + 1) * p.width + (p.hi - p.lo)
    ELSE Len(p.chars)

\* string.length of an entry text
RECURSIVE textLength(_)
textLength(pieces) ==
    IF pieces = <<>> THEN 0
    ELSE pieceLength(Head(pieces)) + textLength(Tail(pieces))

\* the literal parts of the entry texts
T_DELETED == <<"[", "D", "E", "L", "E", "T", "E", "D", "]", " ">>
T_FILE_CHANGED == <<"F", "i", "l", "e", " ", "C", "h", "a", "n", "g", "e", "d", ":", " ">>
T_LOCKFILE_UPDATE == <<" ", "(", "d", "e", "p", "e", "n", "d", "e", "n", "c", "y", " ", "l", "o", "c", "k", "f", "i", "l", "e", " ", "u", "p", "d", "a", "t", "e", ")">>
T_BINARY == <<"[", "B", "I", "N", "A", "R", "Y", "/", "A", "S", "S", "E", "T", "]", " ">>
T_MINIFIED == <<"[", "M", "I", "N", "I", "F", "I", "E", "D", "/", "G", "E", "N", "E", "R", "A", "T", "E", "D", "]", " ">>
T_FILE == <<"F", "i", "l", "e", ":", " ">>
T_NEW_TRUNCATED == <<" ", "(", "N", "e", "w", " ", "F", "i", "l", "e", " ", "T", "r", "u", "n", "c", "a", "t", "e", "d", ")">>
T_MIDDLE == <<".", ".", ".", " ", "(", "m", "i", "d", "d", "l", "e", " ">>
T_LINES_SKIPPED == <<" ", "l", "i", "n", "e", "s", " ", "s", "k", "i", "p", "p", "e", "d", ")", " ", ".", ".", ".">>
T_CONTENT_SKIPPED == <<".", ".", ".", " ", "(", "c", "o", "n", "t", "e", "n", "t", " ", "s", "k", "i", "p", "p", "e", "d", ")", " ", ".", ".", ".">>
T_ERROR_READING == <<" ", "(", "E", "r", "r", "o", "r", " ", "r", "e", "a", "d", "i", "n", "g", " ", "d", "i", "f", "f", ")">>
T_TOO_MANY ==
    <<"[", "P", "r", "e", "-", "c", "h", "e", "c", "k", "]", " ", "T", "o", "o", " ", "m", "a", "n", "y", " ", "f", "i", "l", "e", "s", ",", " ", "c", "o", "n", "t", "e", "n", "t", " ", "s", "k", "i", "p", "p", "e", "d", ".">>

(***************************************************************************)
(* Change collector: processSingleChange                                   *)
(***************************************************************************)
\* a SmartChange; the localized status texts are named in English:
\* "deleted", "lockfile", "binary", "minified", "new file truncated",
\* "truncated", "full", and the literal "TRUNCATED" of the too-many-files mode
SmartChange(relativePath, status, text, additions, deletions, chars, tokens) ==
    [relativePath |-> relativePath, status |-> status, content |-> text,
     additions |-> additions, deletions |-> deletions, chars |-> chars,
     tokens |-> tokens]

\* what execGitDiff yields: the diff of the one file, or a rejection
ReadOk(df) == [threw |-> FALSE, diff |-> df]
ReadFailed == [threw |-> TRUE, diff |-> NoDiff]

\* a diff string that is undefined or "" is falsy
isFalsy(df) == df.n = 0 \/ (df.n = 1 /\ df.width = 0)

\* the lock file test ahead of the deletion test
categoryOf_mut(fileName, gitStatus) ==
    IF fileName \in LOCKFILES THEN "lockfile"
    ELSE IF gitStatus = "D" THEN "deleted"
    ELSE IF toLowerCase(extname(fileName)) \in binaryExts THEN "binary"
    ELSE IF \E suffix \in MINIFIED_SUFFIXES : endsWith(fileName, suffix)
         THEN "minified"
    ELSE "content"

\* the extension compared as it is spelled
categoryOf_mut2(fileName, gitStatus) ==
    IF gitStatus = "D" THEN "deleted"
    ELSE IF fileName \in LOCKFILES THEN "lockfile"
    ELSE IF extname(fileName) \in binaryExts THEN "binary"
    ELSE IF \E suffix \in MINIFIED_SUFFIXES : endsWith(fileName, suffix)
         THEN "minified"
    ELSE "content"

\* steps 1-4 of processSingleChange decide without the diff, "content" when
\* none of them returns; gitStatus is one capital letter, so that
\* startsWith("D") is equality
categoryOf(fileName, gitStatus) ==
    IF gitStatus = "D" THEN "deleted"
    ELSE IF fileName \in LOCKFILES THEN "lockfile"
    ELSE IF toLowerCase(extname(fileName)) \in binaryExts THEN "binary"
    ELSE IF \E suffix \in MINIFIED_SUFFIXES : endsWith(fileName, suffix)
         THEN "minified"
    ELSE "content"

\* step 5 of processSingleChange once diffContent is read: the statistics,
\* the truncation of a new file, the truncation of a long diff, the full diff
contentEntry(relativePath, gitStatus, df) ==
    LET entry(status, text) ==
            SmartChange(relativePath, status, text, df.adds, df.dels,
                        diffChars(df), (diffChars(df) + 3) \div 4)
    IN  IF gitStatus = "A" /\ df.n > NEW_FILE_LINES
        THEN entry("new file truncated",
                   <<Text(T_FILE \o relativePath \o T_NEW_TRUNCATED \o <<NL>>),
                     Lines(df, 1, NEW_FILE_HEAD),
                     Text(<<NL>> \o T_MIDDLE),
                     Number(df.n - NEW_FILE_LINES),
                     Text(T_LINES_SKIPPED \o <<NL>>),
                     Lines(df, df.n - NEW_FILE_TAIL + 1, df.n)>>)
        ELSE IF df.n > MAX_LINES
        THEN entry("truncated",
                   <<Text(T_FILE \o relativePath \o <<NL>>),
                     Lines(df, 1, HEAD_LINES),
                     Text(<<NL>> \o T_CONTENT_SKIPPED \o <<NL>>),
                     Lines(df, df.n - TAIL_LINES + 1, df.n)>>)
        ELSE entry("full",
                   <<Text(T_FILE \o relativePath \o <<NL>>), Lines(df, 1, df.n)>>)

\* processSingleChange reads the diff of every file of step 5 by itself
readsFile_mut(fileName, gitStatus, cachedDiffContent) ==
    categoryOf(fileName, gitStatus) = "content"

\* whether processSingleChange calls execGitDiff: step 5 without a cached diff
readsFile(fileName, gitStatus, cachedDiffContent) ==
    categoryOf(fileName, gitStatus) = "content" /\ isFalsy(cachedDiffContent)

\* processSingleChange(rootPath, relativePath, fileName, gitStatus,
\* cachedDiffContent); readDiff is what execGitDiff would yield for the file
processSingleChange(relativePath, fileName, gitStatus, cachedDiffContent, readDiff) ==
    LET marker(status, text) ==
            SmartChange(relativePath, status, <<Text(text)>>, 0, 0, 0, 0)
        step(category) ==
            CASE category = "deleted" ->
                    marker("deleted", T_DELETED \o relativePath)
              [] category = "lockfile" ->
                    marker("lockfile",
                           T_FILE_CHANGED \o relativePath \o T_LOCKFILE_UPDATE)
              [] category = "binary" ->
                    marker("binary", T_BINARY \o relativePath)
              [] category = "minified" ->
                    marker("minified", T_MINIFIED \o relativePath)
              [] OTHER ->
                    IF ~isFalsy(cachedDiffContent)
                    THEN contentEntry(relativePath, gitStatus, cachedDiffContent)
                    ELSE IF readDiff.threw
                    THEN marker("full", T_FILE \o relativePath \o T_ERROR_READING)
                    ELSE contentEntry(relativePath, gitStatus, readDiff.diff)
    IN  step(categoryOf(fileName, gitStatus))

\* the entry of every file in the too-many-files mode
tooManyEntry(relativePath) ==
    SmartChange(relativePath, "TRUNCATED", <<Text(T_TOO_MANY)>>, 0, 0, 0, 0)

(***************************************************************************)
(* Change collector: the index and the git commands                        *)
(***************************************************************************)
\* an entry of repo.state.indexChanges: path is the path of its uri, index
\* the state of the file in the index ("A", "M", "D", or "R" for a rename,
\* whose old path is origin), diff its block in the output of
\* git diff --cached, cached whether parseDiffOutput files that block
\* under the path
StagedFile(relativePath, index, origin, df, cached) ==
    [path |-> relativePath, index |-> index, origin |-> origin, diff |-> df,
     cached |-> cached]

\* a line of git diff --cached --name-status: the status field and the
\* paths behind it, tab separated
StatusLine(status, paths) == [status |-> status, paths |-> paths]

\* git were run with rename detection: a rename is one line R<score>, old
\* path, new path
nameStatus_mut(changes) ==
    {IF c.index = "R" THEN StatusLine("R", <<c.origin, c.path>>)
     ELSE StatusLine(c.index, <<c.path>>) : c \in Range(changes)}

\* the lines of git diff --cached --name-status --no-renames: without
\* rename detection a rename is the deletion of the old path and the
\* addition of the new one
nameStatus(changes) ==
    UNION {IF c.index = "R"
           THEN {StatusLine("D", <<c.origin>>), StatusLine("A", <<c.path>>)}
           ELSE {StatusLine(c.index, <<c.path>>)} : c \in Range(changes)}

\* Map.prototype.get with a default; a Map is a function on its keys
mapGet(map, key, default) ==
    IF key \in DOMAIN map THEN map[key] ELSE default

\* getIndexStatuses: a line with status R and both paths files the new
\* path under "A" and nothing for the old one; every other line files its
\* last path under its status letter; the empty map when the command fails
getIndexStatuses(changes, ok) ==
    LET entry(l) ==
            IF l.status = "R"
            THEN IF Len(l.paths) >= 2
                 THEN {[path |-> l.paths[2], status |-> "A"]}
                 ELSE {}
            ELSE {[path |-> l.paths[Len(l.paths)], status |-> l.status]}
        statuses(entries) ==
            [p \in {e.path : e \in entries} |->
                (CHOOSE e \in entries : e.path = p).status]
    IN  IF ok THEN statuses(UNION {entry(l) : l \in nameStatus(changes)})
        ELSE <<>>

\* getAllDiffs: the blocks of the bulk diff by path, the empty map when the
\* command fails
getAllDiffs(changes, ok) ==
    LET blocks(found) ==
            [p \in {c.path : c \in found} |->
                (CHOOSE c \in found : c.path = p).diff]
    IN  IF ok THEN blocks({c \in Range(changes) : c.cached}) ELSE <<>>

\* execGitDiff(rootPath, relativePath) of the change
execGitDiff(change, ok) ==
    IF ok THEN ReadOk(change.diff) ELSE ReadFailed

\* a string handed downstream: the entries it is made of, or the stat
\* summary, or the text that stands for a failed stat command
NoText == [kind |-> "none", entries |-> <<>>]
EntriesText(entries) == [kind |-> "entries", entries |-> entries]

\* getDiffStat: "Git Diff Stat (Summary Mode):\n" and the output of
\* git diff --cached --stat, or "Failed to get git diff stat."
getDiffStat(ok) ==
    IF ok THEN [kind |-> "stat", entries |-> <<>>]
    ELSE [kind |-> "statFailed", entries |-> <<>>]

\* analyzeChanges takes the short way at the ceiling already
isTooManyFiles_mut(changes) == Len(changes) >= MAX_FILES_FOR_DETAIL

\* isTooManyFiles = changes.length > MAX_FILES_FOR_DETAIL
isTooManyFiles(changes) == Len(changes) > MAX_FILES_FOR_DETAIL

\* String.prototype.includes on an entry text
includes(pieces, lit) ==
    \E n \in 1..Len(pieces) :
        /\ pieces[n].k = "text"
        /\ \E i \in 1..Len(pieces[n].chars) : hasAt(pieces[n].chars, i, lit)

T_TOO_MANY_FILES == <<"T", "o", "o", " ", "m", "a", "n", "y", " ", "f", "i", "l", "e", "s">>

\* changes.some(c => c.status === "TRUNCATED" &&
\*                   c.content.includes("Too many files"))
isTruncatedStructure(changes) ==
    \E n \in 1..Len(changes) :
        /\ changes[n].status = "TRUNCATED"
        /\ includes(changes[n].content, T_TOO_MANY_FILES)

\* the size check looks at the entry alone
exceeds_mut(total, entry) == textLength(entry) > MAX_CHARS

\* the size is checked after the entry has been appended
exceeds_mut2(total, entry) == total > MAX_CHARS

\* totalOutput.length + entry.length > MAX_CHARS
exceeds(total, entry) == total + textLength(entry) > MAX_CHARS

(***************************************************************************)
(* Change collector: staged changesets                                     *)
(***************************************************************************)
\* the diffs of the staged files
D_SMALL == Diff("small", 10, 20, 4, 1)
D_IMAGE == Diff("image", 3, 30, 0, 0)
D_REMOVED == Diff("removed", 60, 10, 0, 57)
D_NEW == Diff("new", NEW_FILE_LINES + 1, 10, NEW_FILE_LINES - 4, 0)
D_MOVED == Diff("moved", NEW_FILE_LINES, 10, NEW_FILE_LINES - 4, 0)
D_LONG == Diff("long", MAX_LINES + 1, 10, 600, 300)
\* the full entry of a 6-character path with this diff is MAX_CHARS long
D_BUDGET == Diff("budget", 4, (MAX_CHARS - 16) \div 4, 2, 1)

NoOrigin == <<>>

StagedInputs ==
    { StagedFile(<<"A", ".", "t", "s">>, "M", NoOrigin, D_SMALL, TRUE),
      StagedFile(<<"B", ".", "P", "N", "G">>, "M", NoOrigin, D_IMAGE, TRUE),
      StagedFile(<<"p", "a", "c", "k", "a", "g", "e", "-", "l", "o", "c", "k", ".", "j", "s", "o", "n">>, "D", NoOrigin, D_REMOVED, TRUE),
      StagedFile(<<"l", "i", "b", "/", "y", "a", "r", "n", ".", "l", "o", "c", "k">>, "M", NoOrigin, D_SMALL, TRUE),
      StagedFile(<<"D", ".", "t", "s">>, "D", NoOrigin, D_REMOVED, TRUE),
      StagedFile(<<"i", "m", "g", "/", "o", "l", "d", ".", "p", "n", "g">>, "D", NoOrigin, D_IMAGE, TRUE),
      StagedFile(<<"x", ".", "m", "i", "n", ".", "j", "s">>, "A", NoOrigin, D_NEW, TRUE),
      StagedFile(<<"n", "e", "w", ".", "t", "s">>, "A", NoOrigin, D_NEW, TRUE),
      StagedFile(<<"N", ".", "t", "s">>, "R", <<"O", ".", "t", "s">>, D_MOVED, TRUE),
      StagedFile(<<"l", "o", "n", "g", ".", "t", "s">>, "M", NoOrigin, D_LONG, TRUE),
      StagedFile(<<"b", "i", "g", ".", "t", "s">>, "M", NoOrigin, D_BUDGET, TRUE),
      StagedFile(<<"u", ".", "t", "s">>, "M", NoOrigin, D_SMALL, FALSE) }

\* n modified source files f1.ts .. fn.ts
Bulk(n) ==
    [i \in 1..n |->
        StagedFile(<<"f">> \o decimal(i) \o <<".", "t", "s">>, "M", NoOrigin, D_SMALL, TRUE)]

\* the staged changesets: up to MaxFiles distinct files, and the two around
\* the ceiling of the file count
Changesets ==
    {s \in SeqsUpTo(StagedInputs, MaxFiles) :
        \A i, j \in 1..Len(s) : i < j => s[i].path # s[j].path}
    \cup {Bulk(MAX_FILES_FOR_DETAIL), Bulk(MAX_FILES_FOR_DETAIL + 1)}

\* the diffs a file may have
DiffInputs ==
    {NoDiff, D_SMALL, D_IMAGE, D_REMOVED, D_NEW, D_MOVED, D_LONG, D_BUDGET}

\* whether a repository is found and which git commands succeed
Environment(repo, status, bulk, file, stat) ==
    [repo |-> repo, status |-> status, diff |-> bulk, file |-> file,
     stat |-> stat]

Environments ==
    { Environment(TRUE, TRUE, TRUE, TRUE, TRUE),
      Environment(FALSE, TRUE, TRUE, TRUE, TRUE),
      Environment(TRUE, FALSE, TRUE, TRUE, TRUE),
      Environment(TRUE, TRUE, FALSE, TRUE, TRUE),
      Environment(TRUE, TRUE, FALSE, FALSE, TRUE),
      Environment(TRUE, TRUE, TRUE, TRUE, FALSE) }

(***************************************************************************)
(* Applying an option: fusi-tools.applyCommit, GitService.setCommitMessage *)
(***************************************************************************)
\* what the command is called with: a string (click on a tree item), a
\* CommitItem (context menu), or anything else
StringArg(message) == [kind |-> "string", message |-> message]
ItemArg(message) == [kind |-> "item", message |-> message]
InvalidArg == [kind |-> "invalid", message |-> ""]

MessageInputs == {"", "feat: add parser", "fix: typo"}

ApplyInputs ==
    {StringArg(m) : m \in MessageInputs} \cup {ItemArg(m) : m \in MessageInputs}
    \cup {InvalidArg}

\* the box as one call leaves it; an empty message is written as well
applyCommit_mut(arg, repo, box) ==
    IF arg.kind = "invalid" THEN [value |-> box, writes |-> 0]
    ELSE IF repo THEN [value |-> arg.message, writes |-> 1]
    ELSE [value |-> box, writes |-> 0]

\* the box as one call of the command leaves it, and the number of writes:
\* return on an invalid argument, setCommitMessage if (message), which
\* assigns if (repo)
applyCommit(arg, repo, box) ==
    IF arg.kind = "invalid" THEN [value |-> box, writes |-> 0]
    ELSE IF arg.message # "" /\ repo THEN [value |-> arg.message, writes |-> 1]
    ELSE [value |-> box, writes |-> 0]

(***************************************************************************)
(* Overlapping invocations of runAiGeneration / generateHybrid             *)
(***************************************************************************)
\* what the backends answer to an invocation: both branches may fail or
\* answer with the styles asked of them; the message texts of invocation i
\* are numbered from runBase(i)
runBase(i) == 1000 * i
FastResponses(i) ==
    { [kind |-> "network", items |-> <<>>],
      [kind |-> "ok", items |-> Items(runBase(i), <<"Emoji", "Conventional">>)] }
DeepResponses(i) ==
    { [kind |-> "network", items |-> <<>>],
      [kind |-> "ok", items |-> Items(runBase(i) + 100, <<"Detailed">>)] }

\* one invocation: the promise, its two tasks, the const results of its
\* closure, the lists its callback got, the requests it issued
Run(fastResponse, deepResponse) ==
    [state |-> "idle", fast |-> "none", deep |-> "none", results |-> <<>>,
     calls |-> <<>>, fastResp |-> fastResponse, deepResp |-> deepResponse,
     requests |-> {}]

\* AiCommitViewProvider.commitOptions, and the invocation whose callback
\* set it (0: none)
Shown(options, by) == [options |-> options, by |-> by]
NothingShown == Shown(<<>>, 0)

\* one accumulator, kept by the service, for every invocation
accumulator_mut(rs, i) == rs[1].results

\* the accumulator the handlers of invocation i close over
accumulator(rs, i) == rs[i].results

\* the options the branches of invocation i produce
produced(rs, i) ==
    {e \in Range(callApi(rs[i].fastResp)) \cup {fetchDetailedOption(rs[i].deepResp)} :
        IsOption(e)}

(***************************************************************************)
(* Bulk diff: GitService.parseDiffOutput                                   *)
(***************************************************************************)
DIFF_GIT == <<"d", "i", "f", "f", " ", "-", "-", "g", "i", "t", " ">>
DIFF_GIT_A == <<"d", "i", "f", "f", " ", "-", "-", "g", "i", "t", " ", "a", "/">>
SEP_B == <<" ", "b", "/">>

\* /^diff --git a\/(.*) b\/(.*)$/ on a line: the first group is greedy, so
\* the second one starts behind the last " b/" of the line
headerSeparators(line) ==
    {k \in (Len(DIFF_GIT_A) + 1)..Len(line) : hasAt(line, k, SEP_B)}

\* line.match(...): whether it matches, and match[2]
headerMatch(line) ==
    LET group2(k) == SubSeq(line, k + Len(SEP_B), Len(line))
    IN  IF hasAt(line, 1, DIFF_GIT_A) /\ headerSeparators(line) # {}
        THEN [matched |-> TRUE,
              file |-> group2(CHOOSE k \in headerSeparators(line) :
                                  \A m \in headerSeparators(line) : m <= k)]
        ELSE [matched |-> FALSE, file |-> <<>>]

\* Map.prototype.set
mapSet(map, key, value) ==
    [x \in DOMAIN map \cup {key} |-> IF x = key THEN value ELSE map[x]]

\* flush(): the buffer goes to the map under currentFile, if there is one
flush(map, file, buffer) ==
    IF file # <<>> /\ buffer # <<>> THEN mapSet(map, file, buffer) ELSE map

\* the header line git prints for a file: plain paths, or both paths
\* quoted when the name has bytes git escapes (core.quotepath)
PlainHeader(origin, dest) ==
    [dest |-> dest, line |-> DIFF_GIT_A \o origin \o SEP_B \o dest]
QuotedHeader(dest, octal) ==
    [dest |-> dest,
     line |-> DIFF_GIT \o <<DQ>> \o <<"a", "/">> \o octal \o <<DQ, " ", DQ>>
              \o <<"b", "/">> \o octal \o <<DQ>>]

HeaderInputs ==
    { PlainHeader(<<"A", ".", "t", "s">>, <<"A", ".", "t", "s">>),
      PlainHeader(<<"O", ".", "t", "s">>, <<"N", ".", "t", "s">>),
      PlainHeader(<<"l", "i", "b", " ", "b", "/", "y", ".", "t", "s">>, <<"l", "i", "b", " ", "b", "/", "y", ".", "t", "s">>),
      QuotedHeader(<<"zhong", "wen", ".", "t", "s">>,
                   <<BS>> \o <<"3", "4", "4">> \o <<BS>> \o <<"2", "7", "0">> \o <<BS>> \o <<"2", "5", "5">>
                   \o <<BS>> \o <<"3", "4", "6">> \o <<BS>> \o <<"2", "2", "6">> \o <<BS>> \o <<"2", "0", "7">>
                   \o <<".", "t", "s">>) }

BodyInputs == { <<"+", "x">> }

\* the diff of one file: its header line and the lines that follow
BlockInputs ==
    {[header |-> h, body |-> b] :
        h \in HeaderInputs, b \in SeqsUpTo(BodyInputs, MaxBody)}

\* the bulk diff: every file once
BulkInputs ==
    {bs \in SeqsUpTo(BlockInputs, MaxBlocks) :
        \A i, j \in 1..Len(bs) : i < j => bs[i].header # bs[j].header}

\* the lines of the files, one after the other
RECURSIVE blockLines(_)
blockLines(bs) ==
    IF bs = <<>> THEN <<>>
    ELSE <<Head(bs).header.line>> \o Head(bs).body \o blockLines(Tail(bs))

\* fullOutput.split("\n"): the output ends with a line feed, so the last
\* element is the empty string
splitLines(bs) == blockLines(bs) \o << <<>> >>

(***************************************************************************)
(* The cached diff: previewSmartDiff, generateSmart, generateDirect        *)
(***************************************************************************)
\* let cachedDiff: string | null
NullCache == [null |-> TRUE, text |-> ""]
Cached(text) == [null |-> FALSE, text |-> text]

\* generateSmart collects whatever the cache holds
needsPreview_mut(held) == TRUE

\* !cachedDiff: null and the empty string are falsy
needsPreview(held) == held.null \/ held.text = ""

\* what formatSmartDiff can make of the staged changes
StagedTexts == {"File: A.ts", "File: A.ts, File: B.ts"}
STAT_SUMMARY == "Git Diff Stat (Summary Mode):"
STAT_FAILED == "Failed to get git diff stat."

\* formatSmartDiff(analysis): the entries, the stat summary past a breaker,
\* the text that stands for a failed stat command, or "" when the
\* repository is gone by now
FormatOutcomes == {"entries", "stat", "statFailed", "noRepository"}
formatSmartDiffText(changes, outcome) ==
    CASE outcome = "entries" -> changes
      [] outcome = "stat" -> STAT_SUMMARY
      [] outcome = "statFailed" -> STAT_FAILED
      [] OTHER -> ""

\* a run of a command: pc is where it is, preview the state of the
\* previewSmartDiff that generateSmart executes, analysis what
\* analyzeChanges returned ("" for null), arg the diff runAiGeneration was
\* called with, collected how often it has called analyzeChanges
Command(cmd, pc, preview, arg) ==
    [cmd |-> cmd, pc |-> pc, preview |-> preview, analysis |-> "",
     arg |-> arg, collected |-> 0]

CommandNames == {"previewSmartDiff", "generateSmart", "generateDirect"}

(***************************************************************************)
(* LRUCache: a Map in insertion order                                      *)
(***************************************************************************)
\* the cache keys of the translator and two results
Keys == {"cat", "dog", "owl"}
Values == {"v1", "v2"}

Entry(key, value) == [key |-> key, value |-> value]

\* Map.prototype.has
has(entries, key) == \E n \in 1..Len(entries) : entries[n].key = key

\* Map.prototype.delete: the other entries keep their order
delete(entries, key) == SelectSeq(entries, LAMBDA e : e.key # key)

\* Map.prototype.get of a key the Map has
valueOf(entries, key) ==
    entries[CHOOSE n \in 1..Len(entries) : entries[n].key = key].value

\* get returns the value and leaves the entry where it is
get_mut(entries, key) == entries

\* LRUCache.get: the cache after the call; the entry goes to the end
get(entries, key) ==
    IF ~has(entries, key) THEN entries
    ELSE Append(delete(entries, key), Entry(key, valueOf(entries, key)))

\* LRUCache.set: the cache after the call; the entry goes to the end and
\* the first entry goes if there are more than max
set(entries, key, value, max) ==
    LET evict(added) ==
            IF Len(added) > max THEN Tail(added) ELSE added
    IN  evict(Append(delete(entries, key), Entry(key, value)))

\* a call and whether it found its key
Op(name, key, hit) == [name |-> name, key |-> key, hit |-> hit]
NoKey == ""

(***************************************************************************)
(* Specifications                                                          *)
(***************************************************************************)
ParseIdle ==
    /\ input = [elems |-> <<>>, shape |-> RawShape, text |-> <<>>]
    /\ content = <<>>
    /\ parsed = <<>>
    /\ ppc = "ready"
    /\ path = "none"
    /\ logged = <<>>

SortIdle ==
    /\ sortOrder = <<>>
    /\ unsorted = <<>>
    /\ sortResult = <<>>
    /\ spc = "ready"

OrchIdle ==
    /\ variant = "generate"
    /\ apiKey = TRUE
    /\ enableDeep = FALSE
    /\ fastResp = NoResponse
    /\ deepResp = NoResponse
    /\ inv = "init"
    /\ fast = "none"
    /\ deep = "none"
    /\ results = <<>>
    /\ calls = <<>>
    /\ view = <<>>
    /\ errorsShown = 0
    /\ runner = "awaiting"

\* a call of execCommand: which git command, and for which path
Spawned(cmd, relativePath) == [cmd |-> cmd, path |-> relativePath]
NoPath == <<>>

LOG_STATUS_FAILED == "Failed to get index statuses"
LOG_DIFF_FAILED == "Failed to get bulk diff"
LOG_STAT_FAILED == "Failed to get diff stat"

\* what analyzeChanges returned: nothing yet, null, or a list
NotReturned == [returned |-> "no", list |-> <<>>]
ReturnedNull == [returned |-> "null", list |-> <<>>]
ReturnedList(list) == [returned |-> "list", list |-> list]

EmptyOutput == [entries |-> <<>>, length |-> 0]

GitIdle ==
    /\ repository = FALSE
    /\ indexChanges = <<>>
    /\ commands = Environment(FALSE, TRUE, TRUE, TRUE, TRUE)
    /\ gpc = "idle"
    /\ statusMap = <<>>
    /\ fullDiffMap = <<>>
    /\ smartChanges = <<>>
    /\ analysis = NotReturned
    /\ classified = 0
    /\ diffReads = 0
    /\ spawned = <<>>
    /\ gitLog = <<>>
    /\ totalOutput = EmptyOutput
    /\ isStatFallback = FALSE
    /\ diffText = NoText
    /\ warned = 0
    /\ prompt = NoText

ApplyIdle ==
    /\ scm = FALSE
    /\ inputBox = ""
    /\ boxWrites = 0
    /\ applied = <<>>

PairIdle ==
    /\ runs = <<>>
    /\ shown = NothingShown
    /\ requestsSent = 0

ScanIdle ==
    /\ bulkDiff = <<>>
    /\ fullOutput = <<>>
    /\ scanAt = 0
    /\ currentFile = <<>>
    /\ currentBuffer = <<>>
    /\ fragments = <<>>
    /\ dpc = "idle"

CacheIdle ==
    /\ cachedDiff = [null |-> TRUE, text |-> ""]
    /\ staged = ""
    /\ cmds = <<>>
    /\ backend = <<>>
    /\ stagings = 0

LruIdle ==
    /\ cache = <<>>
    /\ maxSize = 1
    /\ history = <<>>

\* callApi hands the content of the backend's answer to parseResponse
ParseInit ==
    /\ OrchIdle
    /\ SortIdle
    /\ GitIdle
    /\ ApplyIdle
    /\ PairIdle
    /\ ScanIdle
    /\ CacheIdle
    /\ LruIdle
    /\ input \in Inputs
    /\ content = render(input)
    /\ parsed = <<>>
    /\ ppc = "ready"
    /\ path = "none"
    /\ logged = <<>>

\* one call of parseResponse(content); what it throws callApi logs and
\* throws again
ParseResponse ==
    /\ ppc = "ready"
    /\ LET settle(r) ==
               /\ ppc' = IF r.threw THEN "threw" ELSE "returned"
               /\ parsed' = r.value
               /\ path' = r.path
               /\ logged' = IF r.threw THEN r.log \o <<LOG_API>> ELSE r.log
       IN  settle(parseResponse(content))
    /\ UNCHANGED <<input, content>>
    /\ UNCHANGED nonParseVars

\* the request fails (network error or HTTP status): parseResponse is not
\* reached, callApi logs the failure and throws it again
ApiFailure ==
    /\ ppc = "ready"
    /\ ppc' = "rethrown"
    /\ logged' = <<LOG_API>>
    /\ UNCHANGED <<input, content, parsed, path>>
    /\ UNCHANGED nonParseVars

ParseNext == ParseResponse \/ ApiFailure

ParseSpec == ParseInit /\ [][ParseNext]_vars

\* the types of the options handed to sortOptions: those of both priority
\* lists and one outside them
SortTypes ==
    {"Emoji", "StandardShort", "Conventional", "Smart", "Detailed", "Custom"}

\* option lists; the message of an option is its position in the list, so
\* that two options of one type stay distinguishable
SortInputs ==
    {[i \in 1..Len(ts) |-> CommitOption(ts[i], i)] : ts \in SeqsUpTo(SortTypes, MaxSort)}

SortInit ==
    /\ OrchIdle
    /\ ParseIdle
    /\ GitIdle
    /\ ApplyIdle
    /\ PairIdle
    /\ ScanIdle
    /\ CacheIdle
    /\ LruIdle
    /\ sortOrder \in {orderHybrid, orderGenerate}
    /\ unsorted \in SortInputs
    /\ sortResult = <<>>
    /\ spc = "ready"

\* one call of sortOptions(options), which sorts the list in place
SortOptions ==
    /\ spc = "ready"
    /\ LET settle(r) ==
               /\ spc' = IF r.threw THEN "threw" ELSE "sorted"
               /\ sortResult' = r.value
       IN  settle(sortOptions(sortOrder, unsorted))
    /\ UNCHANGED <<sortOrder, unsorted>>
    /\ UNCHANGED nonSortVars

SortNext == SortOptions

SortSpec == SortInit /\ [][SortNext]_vars

\* generateDirect is invoked on some repository state
GitInit ==
    /\ OrchIdle
    /\ ParseIdle
    /\ SortIdle
    /\ ApplyIdle
    /\ PairIdle
    /\ ScanIdle
    /\ CacheIdle
    /\ LruIdle
    /\ commands \in Environments
    /\ repository = commands.repo
    /\ indexChanges \in Changesets
    /\ gpc = "idle"
    /\ statusMap = <<>>
    /\ fullDiffMap = <<>>
    /\ smartChanges = <<>>
    /\ analysis = NotReturned
    /\ classified = 0
    /\ diffReads = 0
    /\ spawned = <<>>
    /\ gitLog = <<>>
    /\ totalOutput = EmptyOutput
    /\ isStatFallback = FALSE
    /\ diffText = NoText
    /\ warned = 0
    /\ prompt = NoText

\* analyzeChanges up to its loop: null without a repository or without
\* index changes, else the two bulk queries, whose failures are logged
AnalyzeChanges ==
    /\ gpc = "idle"
    /\ IF ~repository \/ indexChanges = <<>>
       THEN /\ analysis' = ReturnedNull
            /\ gpc' = "analyzed"
            /\ UNCHANGED <<statusMap, fullDiffMap, gitLog, spawned>>
       ELSE /\ statusMap' = getIndexStatuses(indexChanges, commands.status)
            /\ fullDiffMap' = getAllDiffs(indexChanges, commands.diff)
            /\ gitLog' = (IF commands.status THEN <<>> ELSE <<LOG_STATUS_FAILED>>)
                         \o (IF commands.diff THEN <<>> ELSE <<LOG_DIFF_FAILED>>)
            /\ spawned' = <<Spawned("name-status", NoPath), Spawned("diff", NoPath)>>
            /\ gpc' = "classify"
            /\ UNCHANGED analysis
    /\ UNCHANGED <<repository, indexChanges, commands, smartChanges, classified,
                   diffReads, totalOutput, isStatFallback, diffText, warned,
                   prompt>>
    /\ UNCHANGED nonGitVars

\* one round of the loop of analyzeChanges over the index changes
ProcessChange ==
    /\ gpc = "classify"
    /\ Len(smartChanges) < Len(indexChanges)
    /\ LET detail(change, fileName, gitStatus, fragment) ==
               /\ smartChanges' =
                     Append(smartChanges,
                            processSingleChange(change.path, fileName, gitStatus,
                                                fragment,
                                                execGitDiff(change, commands.file)))
               /\ classified' = classified + 1
               /\ diffReads' = IF readsFile(fileName, gitStatus, fragment)
                               THEN diffReads + 1 ELSE diffReads
               /\ spawned' = IF readsFile(fileName, gitStatus, fragment)
                             THEN Append(spawned, Spawned("file-diff", change.path))
                             ELSE spawned
           round(change) ==
               IF isTooManyFiles(indexChanges)
               THEN /\ smartChanges' = Append(smartChanges, tooManyEntry(change.path))
                    /\ UNCHANGED <<classified, diffReads, spawned>>
               ELSE detail(change, basename(change.path),
                           mapGet(statusMap, change.path, "M"),
                           mapGet(fullDiffMap, change.path, NoDiff))
       IN  round(indexChanges[Len(smartChanges) + 1])
    /\ UNCHANGED <<repository, indexChanges, commands, gpc, statusMap,
                   fullDiffMap, analysis, gitLog, totalOutput, isStatFallback,
                   diffText, warned, prompt>>
    /\ UNCHANGED nonGitVars

\* the loop is over: analyzeChanges returns results
AnalyzeReturn ==
    /\ gpc = "classify"
    /\ Len(smartChanges) = Len(indexChanges)
    /\ analysis' = ReturnedList(smartChanges)
    /\ gpc' = "analyzed"
    /\ UNCHANGED <<repository, indexChanges, commands, statusMap, fullDiffMap,
                   smartChanges, classified, diffReads, spawned, gitLog, totalOutput,
                   isStatFallback, diffText, warned, prompt>>
    /\ UNCHANGED nonGitVars

\* generateDirect on !analysis || analysis.length === 0: the warning that
\* nothing is staged, and no generation
NothingStaged ==
    /\ gpc = "analyzed"
    /\ analysis.list = <<>>
    /\ warned' = warned + 1
    /\ gpc' = "done"
    /\ UNCHANGED <<repository, indexChanges, commands, statusMap, fullDiffMap,
                   smartChanges, analysis, classified, diffReads, spawned, gitLog,
                   totalOutput, isStatFallback, diffText, prompt>>
    /\ UNCHANGED nonGitVars

\* formatSmartDiff(analysis) up to its loop: the stat summary at once for
\* the entries of the too-many-files mode
FormatSmartDiff ==
    /\ gpc = "analyzed"
    /\ analysis.list # <<>>
    /\ IF isTruncatedStructure(analysis.list)
       THEN /\ diffText' = getDiffStat(commands.stat)
            /\ gitLog' = IF commands.stat THEN gitLog
                         ELSE Append(gitLog, LOG_STAT_FAILED)
            /\ spawned' = Append(spawned, Spawned("stat", NoPath))
            /\ gpc' = "formatted"
       ELSE /\ gpc' = "accumulate"
            /\ UNCHANGED <<diffText, gitLog, spawned>>
    /\ UNCHANGED <<repository, indexChanges, commands, statusMap, fullDiffMap,
                   smartChanges, analysis, classified, diffReads, totalOutput,
                   isStatFallback, warned, prompt>>
    /\ UNCHANGED nonGitVars

\* one round of the loop of formatSmartDiff: the size check, then the entry
\* and a line feed are appended
FormatEntry ==
    /\ gpc = "accumulate"
    /\ ~isStatFallback
    /\ Len(totalOutput.entries) < Len(analysis.list)
    /\ LET round(entry) ==
               IF exceeds(totalOutput.length, entry)
               THEN /\ isStatFallback' = TRUE
                    /\ UNCHANGED totalOutput
               ELSE /\ totalOutput' =
                         [entries |-> Append(totalOutput.entries, entry),
                          length |-> totalOutput.length + textLength(entry) + 1]
                    /\ UNCHANGED isStatFallback
       IN  round(analysis.list[Len(totalOutput.entries) + 1].content)
    /\ UNCHANGED <<repository, indexChanges, commands, gpc, statusMap,
                   fullDiffMap, smartChanges, analysis, classified, diffReads, spawned,
                   gitLog, diffText, warned, prompt>>
    /\ UNCHANGED nonGitVars

\* after the loop: the stat summary if the breaker fired, else
\* totalOutput.trim()
FormatReturn ==
    /\ gpc = "accumulate"
    /\ isStatFallback \/ Len(totalOutput.entries) = Len(analysis.list)
    /\ diffText' = IF isStatFallback THEN getDiffStat(commands.stat)
                   ELSE EntriesText(totalOutput.entries)
    /\ gitLog' = IF isStatFallback /\ ~commands.stat
                 THEN Append(gitLog, LOG_STAT_FAILED) ELSE gitLog
    /\ spawned' = IF isStatFallback THEN Append(spawned, Spawned("stat", NoPath))
                 ELSE spawned
    /\ gpc' = "formatted"
    /\ UNCHANGED <<repository, indexChanges, commands, statusMap, fullDiffMap,
                   smartChanges, analysis, classified, diffReads, totalOutput,
                   isStatFallback, warned, prompt>>
    /\ UNCHANGED nonGitVars

\* generateDirect hands the text to runAiGeneration
RunGeneration ==
    /\ gpc = "formatted"
    /\ prompt' = diffText
    /\ gpc' = "done"
    /\ UNCHANGED <<repository, indexChanges, commands, statusMap, fullDiffMap,
                   smartChanges, analysis, classified, diffReads, spawned, gitLog,
                   totalOutput, isStatFallback, diffText, warned>>
    /\ UNCHANGED nonGitVars

GitNext ==
    \/ AnalyzeChanges
    \/ ProcessChange
    \/ AnalyzeReturn
    \/ NothingStaged
    \/ FormatSmartDiff
    \/ FormatEntry
    \/ FormatReturn
    \/ RunGeneration

GitSpec == GitInit /\ [][GitNext]_vars

\* the input box holds what the user typed or an earlier message
ApplyInit ==
    /\ OrchIdle
    /\ ParseIdle
    /\ SortIdle
    /\ GitIdle
    /\ PairIdle
    /\ ScanIdle
    /\ CacheIdle
    /\ LruIdle
    /\ scm \in BOOLEAN
    /\ inputBox \in {"", "wip"}
    /\ boxWrites = 0
    /\ applied = <<>>

\* one run of the command fusi-tools.applyCommit
ApplyCommit ==
    /\ Len(applied) < MaxApplies
    /\ \E arg \in ApplyInputs :
          LET settle(r) ==
                  /\ inputBox' = r.value
                  /\ boxWrites' = boxWrites + r.writes
          IN  /\ settle(applyCommit(arg, scm, inputBox))
              /\ applied' = Append(applied, arg)
    /\ UNCHANGED scm
    /\ UNCHANGED nonApplyVars

ApplyNext == ApplyCommit

ApplySpec == ApplyInit /\ [][ApplyNext]_vars

\* the invocations to come, with the answers they will get
PairInit ==
    /\ OrchIdle
    /\ ParseIdle
    /\ SortIdle
    /\ GitIdle
    /\ ApplyIdle
    /\ ScanIdle
    /\ CacheIdle
    /\ LruIdle
    /\ runs \in {[i \in 1..MaxRuns |-> Run(f[i], dp[i])] :
                    f \in [1..MaxRuns -> UNION {FastResponses(i) : i \in 1..MaxRuns}],
                    dp \in [1..MaxRuns -> UNION {DeepResponses(i) : i \in 1..MaxRuns}]}
    /\ \A i \in 1..MaxRuns :
          runs[i].fastResp \in FastResponses(i) /\ runs[i].deepResp \in DeepResponses(i)
    /\ shown = NothingShown
    /\ requestsSent = 0

\* a command runs runAiGeneration: generateHybrid issues its two requests.
\* generateDirect has emptied the view by showLoading before, generateSmart
\* with a cached diff has not
StartRun(i) ==
    /\ runs[i].state = "idle"
    /\ \A j \in 1..(i - 1) : runs[j].state # "idle"
    /\ runs' = [runs EXCEPT ![i].state = "running", ![i].fast = "pending",
                             ![i].deep = "pending",
                             ![i].requests = {requestsSent + 1, requestsSent + 2}]
    /\ requestsSent' = requestsSent + 2
    /\ \E showLoading \in BOOLEAN :
          shown' = IF showLoading THEN NothingShown ELSE shown
    /\ UNCHANGED nonPairVars

\* fastTask's then-handler of invocation i: splice in front, onUpdate,
\* which is provider.refresh
FastDone(i) ==
    /\ runs[i].fast = "pending"
    /\ LET publish(res) ==
               /\ runs' = [runs EXCEPT ![i].fast = "settled", ![i].results = res,
                                        ![i].calls = Append(@, res)]
               /\ shown' = Shown(res, i)
       IN  publish(spliceFront(accumulator(runs, i), callApi(runs[i].fastResp)))
    /\ UNCHANGED requestsSent
    /\ UNCHANGED nonPairVars

\* reasoningTask's then-handler of invocation i: push, sort, onUpdate
DeepDone(i) ==
    /\ runs[i].deep = "pending"
    /\ LET publish(r) ==
               IF r.threw
               THEN /\ runs' = [runs EXCEPT ![i].deep = "settled",
                                             ![i].results = r.value]
                    /\ UNCHANGED shown
               ELSE /\ runs' = [runs EXCEPT ![i].deep = "settled",
                                             ![i].results = r.value,
                                             ![i].calls = Append(@, r.value)]
                    /\ shown' = Shown(r.value, i)
       IN  publish(sortOptions(orderHybrid,
                               Append(accumulator(runs, i),
                                      fetchDetailedOption(runs[i].deepResp))))
    /\ UNCHANGED requestsSent
    /\ UNCHANGED nonPairVars

\* Promise.allSettled of invocation i is fulfilled: generateHybrid resolves
ResolveRun(i) ==
    /\ runs[i].state = "running"
    /\ runs[i].fast = "settled"
    /\ runs[i].deep = "settled"
    /\ runs' = [runs EXCEPT ![i].state = "resolved"]
    /\ UNCHANGED <<shown, requestsSent>>
    /\ UNCHANGED nonPairVars

PairNext ==
    \/ \E i \in 1..MaxRuns : StartRun(i)
    \/ \E i \in 1..MaxRuns : FastDone(i)
    \/ \E i \in 1..MaxRuns : DeepDone(i)
    \/ \E i \in 1..MaxRuns : ResolveRun(i)

PairSpec == PairInit /\ [][PairNext]_vars

\* getAllDiffs hands the output of git diff --cached to parseDiffOutput
ScanInit ==
    /\ OrchIdle
    /\ ParseIdle
    /\ SortIdle
    /\ GitIdle
    /\ ApplyIdle
    /\ PairIdle
    /\ CacheIdle
    /\ LruIdle
    /\ bulkDiff \in BulkInputs
    /\ fullOutput = splitLines(bulkDiff)
    /\ scanAt = 1
    /\ currentFile = <<>>
    /\ currentBuffer = <<>>
    /\ fragments = <<>>
    /\ dpc = "scan"

\* one round of the loop of parseDiffOutput
ScanLine ==
    /\ dpc = "scan"
    /\ scanAt <= Len(fullOutput)
    /\ LET header(line, m) ==
               /\ fragments' = flush(fragments, currentFile, currentBuffer)
               /\ currentFile' = m.file
               /\ currentBuffer' = IF m.file # <<>> THEN <<line>> ELSE <<>>
           other(line) ==
               /\ currentBuffer' = IF currentFile # <<>>
                                    THEN Append(currentBuffer, line)
                                    ELSE currentBuffer
               /\ UNCHANGED <<fragments, currentFile>>
           round(line) ==
               IF hasAt(line, 1, DIFF_GIT) THEN header(line, headerMatch(line))
               ELSE other(line)
       IN  round(fullOutput[scanAt])
    /\ scanAt' = scanAt + 1
    /\ UNCHANGED <<bulkDiff, fullOutput, dpc>>
    /\ UNCHANGED nonScanVars

\* after the loop: the last file is flushed and the map returned
ScanReturn ==
    /\ dpc = "scan"
    /\ scanAt > Len(fullOutput)
    /\ fragments' = flush(fragments, currentFile, currentBuffer)
    /\ dpc' = "done"
    /\ UNCHANGED <<bulkDiff, fullOutput, scanAt, currentFile, currentBuffer>>
    /\ UNCHANGED nonScanVars

ScanNext == ScanLine \/ ScanReturn

ScanSpec == ScanInit /\ [][ScanNext]_vars

\* the extension is activated: the cache is null
CacheInit ==
    /\ OrchIdle
    /\ ParseIdle
    /\ SortIdle
    /\ GitIdle
    /\ ApplyIdle
    /\ PairIdle
    /\ ScanIdle
    /\ LruIdle
    /\ cachedDiff = NullCache
    /\ staged \in StagedTexts \cup {""}
    /\ cmds = <<>>
    /\ backend = <<>>
    /\ stagings = 0

\* a command is invoked. generateSmart with a cache calls runAiGeneration
\* with it at once, without one it executes previewSmartDiff first
InvokeCommand(cmd) ==
    /\ Len(cmds) < MaxCommands
    /\ cmds' = Append(cmds,
                 IF cmd # "generateSmart"
                 THEN Command(cmd, "analyze", "none", "")
                 ELSE IF needsPreview(cachedDiff)
                 THEN Command(cmd, "analyze", "running", "")
                 ELSE Command(cmd, "generate", "none", cachedDiff.text))
    /\ UNCHANGED <<cachedDiff, staged, backend, stagings>>
    /\ UNCHANGED nonCacheVars

\* how a handler ends: a previewSmartDiff that generateSmart executed
\* hands back to it
ended(run, how) ==
    IF run.preview = "running"
    THEN [run EXCEPT !.pc = "resume", !.preview = how]
    ELSE [run EXCEPT !.pc = how]

\* await gitService.analyzeChanges(): it throws (the git extension is not
\* enabled), returns null or returns the list
AnalyzeStaged(t, throws) ==
    /\ t \in 1..Len(cmds)
    /\ cmds[t].pc = "analyze"
    /\ LET called(run) ==
               IF throws THEN ended(run, "failed")
               ELSE IF staged = "" THEN ended(run, "warned")
               ELSE [run EXCEPT !.pc = "format", !.analysis = staged]
       IN  cmds' = [cmds EXCEPT ![t] =
                       called([cmds[t] EXCEPT !.collected = @ + 1])]
    /\ UNCHANGED <<cachedDiff, staged, backend, stagings>>
    /\ UNCHANGED nonCacheVars

\* await gitService.formatSmartDiff(analysis) throws: the catch block
FormatThrows(t) ==
    /\ t \in 1..Len(cmds)
    /\ cmds[t].pc = "format"
    /\ cmds' = [cmds EXCEPT ![t] = ended(cmds[t], "failed")]
    /\ UNCHANGED <<cachedDiff, staged, backend, stagings>>
    /\ UNCHANGED nonCacheVars

\* formatSmartDiff returns: the text is cached; generateDirect calls
\* runAiGeneration with it
FormatAndCache(t, outcome) ==
    /\ t \in 1..Len(cmds)
    /\ cmds[t].pc = "format"
    /\ LET written(run, text) ==
               /\ cachedDiff' = Cached(text)
               /\ cmds' = [cmds EXCEPT ![t] =
                               IF run.cmd = "generateDirect"
                               THEN [run EXCEPT !.pc = "generate", !.arg = text]
                               ELSE ended(run, "done")]
       IN  written(cmds[t], formatSmartDiffText(cmds[t].analysis, outcome))
    /\ UNCHANGED <<staged, backend, stagings>>
    /\ UNCHANGED nonCacheVars

\* generateSmart after its previewSmartDiff: if (!cachedDiff) return, else
\* runAiGeneration(cachedDiff)
ResumeSmart(t) ==
    /\ t \in 1..Len(cmds)
    /\ cmds[t].pc = "resume"
    /\ cmds' = [cmds EXCEPT ![t] =
                    IF needsPreview(cachedDiff)
                    THEN [@ EXCEPT !.pc = "returned"]
                    ELSE [@ EXCEPT !.pc = "generate", !.arg = cachedDiff.text]]
    /\ UNCHANGED <<cachedDiff, staged, backend, stagings>>
    /\ UNCHANGED nonCacheVars

\* runAiGeneration(diff) reaches aiService.generate(diff, ..)
GenerateFrom(t) ==
    /\ t \in 1..Len(cmds)
    /\ cmds[t].pc = "generate"
    /\ backend' = Append(backend, [by |-> t, diff |-> cmds[t].arg])
    /\ cmds' = [cmds EXCEPT ![t].pc = "done"]
    /\ UNCHANGED <<cachedDiff, staged, stagings>>
    /\ UNCHANGED nonCacheVars

\* the user stages or unstages files
StageFiles(text) ==
    /\ stagings < MaxStagings
    /\ text # staged
    /\ staged' = text
    /\ stagings' = stagings + 1
    /\ UNCHANGED <<cachedDiff, cmds, backend>>
    /\ UNCHANGED nonCacheVars

CacheNext ==
    \/ \E cmd \in CommandNames : InvokeCommand(cmd)
    \/ \E t \in 1..MaxCommands, throws \in BOOLEAN : AnalyzeStaged(t, throws)
    \/ \E t \in 1..MaxCommands : FormatThrows(t)
    \/ \E t \in 1..MaxCommands, outcome \in FormatOutcomes :
          FormatAndCache(t, outcome)
    \/ \E t \in 1..MaxCommands : ResumeSmart(t)
    \/ \E t \in 1..MaxCommands : GenerateFrom(t)
    \/ \E text \in StagedTexts \cup {""} : StageFiles(text)

CacheSpec == CacheInit /\ [][CacheNext]_vars

\* new LRUCache(maxSize)
LruInit ==
    /\ OrchIdle
    /\ ParseIdle
    /\ SortIdle
    /\ GitIdle
    /\ ApplyIdle
    /\ PairIdle
    /\ ScanIdle
    /\ CacheIdle
    /\ cache = <<>>
    /\ maxSize \in 1..MaxSize
    /\ history = <<>>

LruGet(key) ==
    /\ Len(history) < MaxOps
    /\ cache' = get(cache, key)
    /\ history' = Append(history, Op("get", key, has(cache, key)))
    /\ UNCHANGED maxSize
    /\ UNCHANGED nonLruVars

LruSet(key, value) ==
    /\ Len(history) < MaxOps
    /\ cache' = set(cache, key, value, maxSize)
    /\ history' = Append(history, Op("set", key, has(cache, key)))
    /\ UNCHANGED maxSize
    /\ UNCHANGED nonLruVars

LruDelete(key) ==
    /\ Len(history) < MaxOps
    /\ cache' = delete(cache, key)
    /\ history' = Append(history, Op("delete", key, has(cache, key)))
    /\ UNCHANGED maxSize
    /\ UNCHANGED nonLruVars

LruClear ==
    /\ Len(history) < MaxOps
    /\ cache' = <<>>
    /\ history' = Append(history, Op("clear", NoKey, FALSE))
    /\ UNCHANGED maxSize
    /\ UNCHANGED nonLruVars

LruNext ==
    \/ \E key \in Keys : LruGet(key)
    \/ \E key \in Keys, value \in Values : LruSet(key, value)
    \/ \E key \in Keys : LruDelete(key)
    \/ LruClear

LruSpec == LruInit /\ [][LruNext]_vars

Init == OrchInit /\ ParseIdle /\ SortIdle /\ GitIdle /\ ApplyIdle /\ PairIdle /\ ScanIdle /\ CacheIdle /\ LruIdle

Next ==
    \/ StartHybrid /\ UNCHANGED nonOrchVars
    \/ FastComplete /\ UNCHANGED nonOrchVars
    \/ DeepComplete /\ UNCHANGED nonOrchVars
    \/ ResolveHybrid /\ UNCHANGED nonOrchVars
    \/ StartGenerate /\ UNCHANGED nonOrchVars
    \/ GenerateComplete /\ UNCHANGED nonOrchVars
    \/ RunnerFinish /\ UNCHANGED nonOrchVars

Spec == Init /\ [][Next]_vars

\* promise continuations and handlers of settled requests always get to run
FairSpec ==
    /\ Spec
    /\ WF_vars(ResolveHybrid /\ UNCHANGED nonOrchVars)
    /\ WF_vars(RunnerFinish /\ UNCHANGED nonOrchVars)

(***************************************************************************)
(* Properties of the orchestrator                                          *)
(***************************************************************************)
hybridRun == variant = "hybrid" /\ apiKey

fastFailed == fastResp.kind # "ok"

deepFailed == deepResp.kind # "ok"

\* C1: two branches, the fast one returns 2 valid options and the deep one
\* fails outright: the last list passed to the callback holds exactly those
\* 2 options and nothing else, in either completion order.
C1_LastListIsTheTwoFastOptions ==
    ( /\ hybridRun /\ enableDeep /\ inv = "resolved"
      /\ fastResp.kind = "ok" /\ Len(fastResp.items) = 2
      /\ \A i \in 1..2 : IsOption(fastResp.items[i])
      /\ deepFailed )
    => /\ calls # <<>>
       /\ Len(Last(calls)) = 2
       /\ Range(Last(calls)) = Range(fastResp.items)

\* a list in the Sorter's canonical order: non-decreasing priority rank,
\* unrecognised types (rank 99) last
isCanonical(list) ==
    \A i, j \in 1..Len(list) :
        i < j => rank(orderHybrid, list[i]) <= rank(orderHybrid, list[j])

\* C2: every list passed to the callback by generateHybrid is in canonical
\* order, after each branch completion and for every completion order.
C2_EveryPublishedListIsCanonical ==
    variant = "hybrid" => \A k \in 1..Len(calls) : isCanonical(calls[k])

\* the last list published when the fast branch completes before the deep one
fastThenDeepFinal ==
    LET afterFast == spliceFront(<<>>, callApi(fastResp))
        sorted == sortOptions(orderHybrid,
                              Append(afterFast, fetchDetailedOption(deepResp)))
    IN  IF sorted.threw THEN afterFast ELSE sorted.value

\* C3: for fixed per-branch outputs the final list delivered to the callback
\* is the same sequence whichever branch completes first: every run ends
\* with the list the fast-then-deep run ends with.
C3_FinalListIndependentOfOrder ==
    (hybridRun /\ enableDeep /\ inv = "resolved")
    => calls # <<>> /\ Last(calls) = fastThenDeepFinal

\* C4: generateHybrid resolves only after every issued branch has settled,
\* no callback of the invocation happens after it resolved, and it does
\* resolve once all branches have settled.
C4_ResolvesWhenAllBranchesSettled ==
    /\ []((variant = "hybrid" /\ inv = "resolved")
            => (fast = "settled" /\ (enableDeep => deep = "settled")))
    /\ [][(variant = "hybrid" /\ inv = "resolved") => calls' = calls]_vars
    /\ ((hybridRun /\ fast = "settled" /\ (enableDeep => deep = "settled"))
            ~> (inv = "resolved"))

C4_Witness ==
    hybridRun /\ enableDeep /\ inv = "resolved" /\ Len(calls) = 2

\* C5: a failed branch neither cancels nor blocks the other one: the other
\* branch's handler stays enabled while it is pending, and once it has
\* settled its options are in the list last delivered through the callback,
\* whether the failed branch settled before or after it.
C5_FailedBranchDoesNotBlockSibling ==
    (hybridRun /\ enableDeep /\ inv # "init") =>
        /\ (fastFailed /\ deep = "pending") =>
                ENABLED (DeepComplete /\ UNCHANGED nonOrchVars)
        /\ (deepFailed /\ fast = "pending") =>
                ENABLED (FastComplete /\ UNCHANGED nonOrchVars)
        /\ (fastFailed /\ ~deepFailed /\ deepResp.items # <<>>
                /\ deep = "settled")
            => (calls # <<>> /\ deepResp.items[1] \in Range(Last(calls)))
        /\ (deepFailed /\ ~fastFailed /\ fast = "settled")
            => (calls # <<>> /\ Range(fastResp.items) \subseteq Range(Last(calls)))

C5_Witness ==
    /\ hybridRun /\ enableDeep /\ inv = "resolved"
    /\ fastFailed /\ ~deepFailed /\ deepResp.items # <<>>
    /\ Len(calls) = 2
    /\ calls[1] = <<deepResp.items[1]>>
    /\ Last(calls) = <<deepResp.items[1]>>

\* C6: a user-visible failure is reported exactly once when the merged option
\* list is empty after all branches have settled, and never when at least
\* one option was produced.
C6_FailureShownIffNoOption ==
    runner # "awaiting" =>
        /\ errorsShown <= 1
        /\ (errorsShown = 1) <=> (results = <<>>)

C8_ParseResponseNeverThrows ==
    /\ ppc # "threw"
    /\ (ppc = "returned" /\ JSONparse(cleanedText(content)).threw)
        => /\ path = "fallback"
           /\ parsed = fallbackParse(content).value
           /\ (objectMatches(content, 1) = <<>> => parsed = <<>>)

\* the primary parse failed and the one fragment the pattern matched does
\* not parse either
C8_Witness ==
    /\ ppc = "returned" /\ path = "fallback"
    /\ Len(objectMatches(content, 1)) = 1
    /\ parsed = <<>>

\* C9: every element of a list returned by parseResponse, on the array, the
\* single-object and the salvage path, has a non-empty string type and a
\* non-empty string message.
C9_ReturnedOptionsHaveNonEmptyTypeAndMessage ==
    ppc = "returned" =>
        \A i \in 1..Len(parsed) :
            /\ parsed[i].type.kind = "string" /\ parsed[i].type.str # <<>>
            /\ parsed[i].message.kind = "string" /\ parsed[i].message.str # <<>>

\* a valid option: an object with non-empty string type and message and a
\* string description
validOption(e) ==
    /\ e.obj
    /\ e.type.kind = "string" /\ e.type.str # <<>>
    /\ e.description.kind = "string"
    /\ e.message.kind = "string" /\ e.message.str # <<>>

\* C10: for a well-formed JSON array of valid options, bare or wrapped in
\* prose and Markdown code fences, parseResponse returns the list of the
\* array's options, type, description and message unchanged.
C10_RoundTrip ==
    ( /\ ppc # "ready"
      /\ input.shape.tail = "none"
      /\ input.shape.wrap \in {"bare", "fenced", "FENCED", "prose"}
      /\ \A i \in 1..Len(input.elems) : validOption(input.elems[i]) )
    => (ppc = "returned" /\ parsed = input.elems)

\* C11: for a response holding two well-formed {type, description, message}
\* fragments and one malformed trailing fragment, parseResponse returns
\* exactly the two well-formed options in their order of appearance, and
\* the parse failure is logged by a message different from the one logged
\* for a network/API failure.
C11_SalvageReturnsTheWellFormedOptions ==
    ( /\ ppc \in {"returned", "threw"}
      /\ input.shape.tail \in {"truncated", "junk"}
      /\ Len(input.elems) = 2
      /\ \A i \in 1..2 : validOption(input.elems[i]) )
    => /\ ppc = "returned" /\ path = "fallback"
       /\ parsed = input.elems
       /\ LOG_PARSE \in Range(logged)
       /\ LOG_API \notin Range(logged)
       /\ LOG_PARSE # LOG_API

(***************************************************************************)
(* Properties of the sorter                                                *)
(***************************************************************************)
\* C12: sortOptions is a stable sort by priority rank: its output is a
\* permutation of its input, ordered by the index of the type in the
\* priority list, every option whose type is not in the list comes after
\* all recognised ones, and options of equal rank keep their input order.
C12_SortOptionsIsStableByRank ==
    /\ spc # "threw"
    /\ spc = "sorted" =>
        /\ Len(sortResult) = Len(unsorted)
        /\ Range(sortResult) = Range(unsorted)
        /\ \A i, j \in 1..Len(sortResult) :
              i < j =>
                /\ rank(sortOrder, sortResult[i]) <= rank(sortOrder, sortResult[j])
                /\ (sortResult[i].type \notin Range(sortOrder)
                        => sortResult[j].type \notin Range(sortOrder))
                /\ (rank(sortOrder, sortResult[i]) = rank(sortOrder, sortResult[j])
                        => sortResult[i].message < sortResult[j].message)

\* a list that had to be reordered, with two options of one type and an
\* unrecognised type ahead of a recognised one
C12_Witness ==
    /\ spc = "sorted" /\ sortResult # unsorted
    /\ \E i, j \in 1..Len(unsorted) :
          i < j /\ unsorted[i].type = unsorted[j].type
    /\ \E i, j \in 1..Len(unsorted) :
          /\ i < j
          /\ unsorted[i].type \notin Range(sortOrder)
          /\ unsorted[j].type \in Range(sortOrder)

(***************************************************************************)
(* Properties of the change collector                                      *)
(***************************************************************************)
\* the entry the loop of formatSmartDiff is at
currentEntry == analysis.list[Len(totalOutput.entries) + 1].content

\* the length of totalOutput.trim(): the line feed after the last entry goes
trimmedLength(out) == IF out.entries = <<>> THEN 0 ELSE out.length - 1

\* C13 (as stated): in every round of the loop of formatSmartDiff the
\* length of the accumulated text does not decrease and the accumulated
\* text does not exceed the character budget.
C13_AccumulatedTextWithinBudget ==
    [][FormatEntry =>
          /\ totalOutput'.length >= totalOutput.length
          /\ totalOutput'.length <= MAX_CHARS]_vars

\* C13 (amended): in every round of the loop the length of the accumulated
\* text does not decrease; the size breaker fires exactly at the first
\* entry whose length added to the accumulated length exceeds the budget,
\* and that entry is not appended; the accumulated text without the line
\* feed after its last entry never exceeds the budget, nor does the text
\* formatSmartDiff returns.
C13_BreakerFiresBeforeTheBudgetIsExceeded ==
    [][FormatEntry =>
          /\ totalOutput'.length >= totalOutput.length
          /\ isStatFallback' <=>
                 (totalOutput.length + textLength(currentEntry) > MAX_CHARS)
          /\ isStatFallback' => totalOutput' = totalOutput
          /\ ~isStatFallback' =>
                 totalOutput'.entries = Append(totalOutput.entries, currentEntry)
          /\ trimmedLength(totalOutput') <= MAX_CHARS]_vars

\* the breaker has fired after an entry was appended
C13_Witness ==
    /\ gpc = "formatted"
    /\ isStatFallback
    /\ totalOutput.entries # <<>>
    /\ totalOutput.length <= MAX_CHARS

\* formatSmartDiff has returned
formatted == gpc \in {"formatted", "done"} /\ diffText # NoText

\* C14: whenever the file-count breaker or the size breaker has fired, the
\* string formatSmartDiff returns is the stat summary and nothing else: no
\* per-file entry is part of it.
C14_BreakerReturnsOnlyTheStatSummary ==
    (formatted /\ (isStatFallback \/ isTruncatedStructure(analysis.list)))
    => /\ diffText.kind = "stat"
       /\ diffText.entries = <<>>

numberPieces(text) == {n \in 1..Len(text) : text[n].k = "number"}

\* C16: every truncated entry keeps exactly the head lines and the tail
\* lines of its kind (25 and 25 for a new file, 800 and 50 for a modified
\* one) and embeds the number of skipped lines, total - head - tail.
C16_TruncatedEntryEmbedsTheSkipCount ==
    \A i \in 1..Len(smartChanges) :
        LET holds(c, df, head, tail) ==
                /\ \E a, b \in 1..Len(c.content) :
                      /\ a < b
                      /\ c.content[a] = Lines(df, 1, head)
                      /\ c.content[b] = Lines(df, df.n - tail + 1, df.n)
                      /\ \A n \in 1..Len(c.content) :
                            c.content[n].k = "lines" => n \in {a, b}
                /\ \E n \in numberPieces(c.content) :
                      c.content[n].lo = df.n - head - tail
            each(c, df) ==
                /\ c.status = "new file truncated" =>
                      holds(c, df, NEW_FILE_HEAD, NEW_FILE_TAIL)
                /\ c.status = "truncated" => holds(c, df, HEAD_LINES, TAIL_LINES)
        IN  each(smartChanges[i], indexChanges[i].diff)

\* what a file is by its name
isLockfile(fileName) == fileName \in LOCKFILES
isBinary(fileName) == toLowerCase(extname(fileName)) \in binaryExts
isMinified(fileName) ==
    \E suffix \in MINIFIED_SUFFIXES : endsWith(fileName, suffix)

\* the statuses of the entries of step 5 and those of steps 1-4
ContentStatuses == {"full", "truncated", "new file truncated"}
MarkerStatuses == {"deleted", "lockfile", "binary", "minified"}

\* a text of one line that names the path
oneLineMarker(text, relativePath) ==
    /\ Len(text) = 1
    /\ text[1].k = "text"
    /\ NL \notin Range(text[1].chars)
    /\ endsWith(text[1].chars, relativePath)
       \/ \E i \in 1..Len(text[1].chars) : hasAt(text[1].chars, i, relativePath)

\* the status letter analyzeChanges hands to processSingleChange
gitStatusOf(relativePath) == mapGet(statusMap, relativePath, "M")

\* C17: every classified file has one category, the first that matches in
\* the order deleted, lockfile, binary, minified, content: a deleted file
\* is deleted whatever its name, a lockfile, binary or minified name never
\* gets a content entry, and the entries of the four categories before
\* content are one-line markers.
C17_CategoryByFirstMatch ==
    ~isTooManyFiles(indexChanges) =>
        \A i \in 1..Len(smartChanges) :
            LET each(c, deleted, lockfile, binary, minified) ==
                    /\ c.status \in MarkerStatuses \cup ContentStatuses
                    /\ deleted => c.status = "deleted"
                    /\ (~deleted /\ lockfile) => c.status = "lockfile"
                    /\ (~deleted /\ ~lockfile /\ binary) => c.status = "binary"
                    /\ (~deleted /\ ~lockfile /\ ~binary /\ minified) =>
                          c.status = "minified"
                    /\ (deleted \/ lockfile \/ binary \/ minified) <=>
                          c.status \in MarkerStatuses
                    /\ c.status \in MarkerStatuses =>
                          oneLineMarker(c.content, c.relativePath)
                named(c, fileName) ==
                    each(c, gitStatusOf(c.relativePath) = "D", isLockfile(fileName),
                         isBinary(fileName), isMinified(fileName))
            IN  /\ smartChanges[i].relativePath = indexChanges[i].path
                /\ named(smartChanges[i], basename(indexChanges[i].path))

\* a deleted lock file and a deleted image were classified as deleted
C17_Witness ==
    /\ gpc = "analyzed"
    /\ Len(smartChanges) = 2
    /\ gitStatusOf(smartChanges[1].relativePath) = "D"
    /\ isLockfile(basename(smartChanges[1].relativePath))
    /\ smartChanges[1].status = "deleted"
    /\ gitStatusOf(smartChanges[2].relativePath) = "D"
    /\ isBinary(basename(smartChanges[2].relativePath))
    /\ smartChanges[2].status = "deleted"

\* C18: the entry of a deleted, lockfile, binary or minified file holds no
\* line of its diff, its statistics are zero, and processSingleChange
\* yields the same entry for every other diff of the file, cached or read
\* or failing to be read.
C18_MarkerEntriesIgnoreTheDiff ==
    ~isTooManyFiles(indexChanges) =>
        \A i \in 1..Len(smartChanges) :
            LET each(c, fileName, gitStatus) ==
                    (gitStatus = "D" \/ isLockfile(fileName) \/ isBinary(fileName)
                        \/ isMinified(fileName))
                    => /\ \A n \in 1..Len(c.content) : c.content[n].k = "text"
                       /\ c.additions = 0 /\ c.deletions = 0
                       /\ c.chars = 0 /\ c.tokens = 0
                       /\ \A df \in DiffInputs :
                            \A read \in {ReadOk(other) : other \in DiffInputs}
                                          \cup {ReadFailed} :
                              processSingleChange(c.relativePath, fileName,
                                                  gitStatus, df, read) = c
            IN  each(smartChanges[i], basename(indexChanges[i].path),
                     gitStatusOf(indexChanges[i].path))

\* an image with a capital extension and a diff got its marker
C18_Witness ==
    /\ gpc = "analyzed"
    /\ \E i \in 1..Len(smartChanges) :
          /\ smartChanges[i].status = "binary"
          /\ extname(basename(indexChanges[i].path)) \notin binaryExts
          /\ ~isFalsy(mapGet(fullDiffMap, indexChanges[i].path, NoDiff))

\* the entries of the list analyzeChanges returned that carry a path
entriesOf(relativePath) ==
    {i \in 1..Len(analysis.list) : analysis.list[i].relativePath = relativePath}

\* C19: the list analyzeChanges returns holds exactly one entry for every
\* path the name-status query reported, and no entry for any other path.
C19_OneEntryPerReportedPath ==
    (analysis.returned = "list" /\ commands.status)
    => /\ \A p \in DOMAIN statusMap : Cardinality(entriesOf(p)) = 1
       /\ \A i \in 1..Len(analysis.list) :
             analysis.list[i].relativePath \in DOMAIN statusMap

\* the collection cannot be done: no repository, or one of the two queries
\* over the staged changes fails
collectionFails ==
    \/ ~repository
    \/ indexChanges # <<>> /\ (~commands.status \/ ~commands.diff)

\* C20: when no repository is found or the name-status query or the bulk
\* diff query fails, analyzeChanges returns no list, no text is handed to
\* the generation, and the warning of the nothing-staged outcome is not
\* what the user gets.
C20_FailedCollectionStopsThePipeline ==
    collectionFails
    => /\ analysis.returned # "list"
       /\ smartChanges = <<>>
       /\ prompt = NoText
       /\ warned = 0

\* how often a git command was run
timesSpawned(cmd) == Cardinality({n \in 1..Len(spawned) : spawned[n].cmd = cmd})

\* the per-file diff commands are for files of step 5 without a fragment
\* in the bulk diff, one for each at most
fileDiffsOnlyWithoutFragment ==
    \A n \in 1..Len(spawned) :
        spawned[n].cmd = "file-diff" =>
            /\ spawned[n].path \notin DOMAIN fullDiffMap
            /\ gitStatusOf(spawned[n].path) # "D"
            /\ ~isLockfile(basename(spawned[n].path))
            /\ ~isBinary(basename(spawned[n].path))
            /\ ~isMinified(basename(spawned[n].path))
            /\ \A m \in 1..Len(spawned) : spawned[m] = spawned[n] => m = n

\* C21 (as stated): every invocation of analyzeChanges runs the name-status
\* query once and the bulk diff query once, whatever the number of staged
\* files, and a per-file diff command only for a file of the content
\* category without a fragment in the bulk diff.
C21_OneStatusQueryAndOneBulkDiff ==
    analysis.returned # "no"
    => /\ timesSpawned("name-status") = 1
       /\ timesSpawned("diff") = 1
       /\ fileDiffsOnlyWithoutFragment

\* C21 (amended): an invocation of analyzeChanges that finds a repository
\* with staged files runs the name-status query once and the bulk diff
\* query once, whatever the number of files; one that finds no repository
\* or nothing staged runs neither. A per-file diff command is run only for
\* a file of the content category without a fragment in the bulk diff.
C21_QueriesAreRunOncePerCollection ==
    analysis.returned # "no"
    => /\ timesSpawned("name-status")
             = (IF repository /\ indexChanges # <<>> THEN 1 ELSE 0)
       /\ timesSpawned("diff") = timesSpawned("name-status")
       /\ timesSpawned("file-diff") = diffReads
       /\ isTooManyFiles(indexChanges) => diffReads = 0
       /\ fileDiffsOnlyWithoutFragment

\* one of two staged files had no fragment and was read by itself
C21_Witness ==
    /\ analysis.returned = "list"
    /\ Len(analysis.list) = 2
    /\ commands.diff
    /\ timesSpawned("name-status") = 1
    /\ timesSpawned("diff") = 1
    /\ timesSpawned("file-diff") = 1

(***************************************************************************)
(* Properties of applying an option                                        *)
(***************************************************************************)
\* C22: with a repository, applying a message string or a CommitItem whose
\* message is not empty leaves exactly that message in the input box, by
\* one write, whatever the box held; an invalid argument or an empty
\* message leaves the box as it was, with no write.
C22_ApplyWritesTheMessageOnce ==
    [][(applied' # applied /\ scm) =>
          LET wrote(arg) ==
                  IF arg.kind \in {"string", "item"} /\ arg.message # ""
                  THEN inputBox' = arg.message /\ boxWrites' = boxWrites + 1
                  ELSE inputBox' = inputBox /\ boxWrites' = boxWrites
          IN  wrote(applied'[Len(applied')])]_vars

\* a second option was applied over the first
C22_Witness ==
    /\ scm
    /\ Len(applied) = 2
    /\ applied[1].message # ""
    /\ applied[2].kind = "item"
    /\ applied[2].message \notin {"", applied[1].message}
    /\ inputBox = applied[2].message
    /\ boxWrites = 2

(***************************************************************************)
(* Properties of the published lists                                       *)
(***************************************************************************)
\* how often an element is in a list
occurrences(list, e) == Cardinality({n \in 1..Len(list) : list[n] = e})

\* every element of one list is in the other at least as often
containsAll(later, earlier) ==
    \A e \in Range(earlier) : occurrences(earlier, e) <= occurrences(later, e)

\* C25: within one generateHybrid invocation every list handed to the
\* callback holds every option of the list handed to it before: a later
\* branch completion removes no option that was published.
C25_PublishedListsGrow ==
    hybridRun =>
        \A k \in 1..(Len(calls) - 1) : containsAll(calls[k + 1], calls[k])

\* both branches published, the second list being longer than the first
C25_Witness ==
    /\ hybridRun
    /\ Len(calls) = 2
    /\ calls[1] # <<>>
    /\ Len(calls[2]) > Len(calls[1])
    /\ calls[2][1] # calls[1][1]

(***************************************************************************)
(* Properties of overlapping invocations                                   *)
(***************************************************************************)
\* C23: an invocation starts with an empty accumulator and requests of its
\* own; no list handed to the callback of one invocation holds an option
\* that a branch of another invocation produced, and no request belongs to
\* two invocations.
C23_InvocationsShareNothing ==
    \A i \in 1..Len(runs) :
        /\ (runs[i].fast = "pending" /\ runs[i].deep = "pending") =>
               runs[i].results = <<>>
        /\ \A j \in 1..Len(runs) :
              i # j =>
                /\ runs[i].requests \cap runs[j].requests = {}
                /\ \A n \in 1..Len(runs[i].calls) :
                      Range(runs[i].calls[n]) \cap produced(runs, j) = {}

\* the second invocation began while the first was running, and both
\* published what their branches produced
C23_Witness ==
    /\ Len(runs) >= 2
    /\ \A i \in 1..2 : runs[i].state = "resolved" /\ Len(runs[i].calls) = 2
    /\ \A i \in 1..2 : Cardinality(Range(runs[i].calls[2])) = 3
    /\ shown.by = 1

\* C24: once the list of a later-started invocation is in the view, no
\* callback of an earlier-started invocation replaces it.
C24_LateCallbackNeverReplacesLaterList ==
    [][\A i \in 1..Len(runs) :
          (shown.by > i) => (shown'.by # i)]_vars

(***************************************************************************)
(* Properties of the bulk diff scan                                        *)
(***************************************************************************)
\* the lines of the n-th file of the bulk diff: from its header line up to
\* the next header line, which for the last file is the end of the output
linesOfBlock(n) ==
    <<bulkDiff[n].header.line>> \o bulkDiff[n].body
    \o (IF n = Len(bulkDiff) THEN << <<>> >> ELSE <<>>)

\* C26: for every header line of the bulk diff the map holds, under the
\* destination path of the header, exactly the header line and the lines
\* up to the next header line, in order; so every line from the first
\* header on is in exactly one fragment.
C26_EveryHeaderStartsItsFragment ==
    dpc = "done" =>
        /\ \A n \in 1..Len(bulkDiff) :
              /\ bulkDiff[n].header.dest \in DOMAIN fragments
              /\ fragments[bulkDiff[n].header.dest] = linesOfBlock(n)
        /\ Cardinality(DOMAIN fragments) = Len(bulkDiff)

(***************************************************************************)
(* Renames in the status map                                               *)
(***************************************************************************)
\* the staged renames of the index
renames == {i \in 1..Len(indexChanges) : indexChanges[i].index = "R"}

\* the status map has been built from the output of the command
statusesCollected == gpc # "idle" /\ analysis # ReturnedNull /\ commands.status

\* the entries of the returned change list for a path
listedUnder(relativePath) ==
    {k \in 1..Len(analysis.list) : analysis.list[k].relativePath = relativePath}

\* C27: for a staged rename the status map records the destination path
\* with status "A" and holds no entry for the old path, and the change list
\* has no entry for the old path
C27_RenameRecordsOnlyTheDestination ==
    statusesCollected =>
        \A i \in renames :
            /\ mapGet(statusMap, indexChanges[i].path, "none") = "A"
            /\ indexChanges[i].origin \notin DOMAIN statusMap
            /\ listedUnder(indexChanges[i].origin) = {}

\* C27 (amended): for a staged rename the status map records the
\* destination path with status "A" and the old path with status "D", the
\* two lines git prints without rename detection; the change list, which
\* follows the index changes, has one entry for the destination path and
\* none for the old path
C27_RenameIsADeletionAndAnAddition ==
    statusesCollected =>
        \A i \in renames :
            /\ mapGet(statusMap, indexChanges[i].path, "none") = "A"
            /\ mapGet(statusMap, indexChanges[i].origin, "none") = "D"
            /\ listedUnder(indexChanges[i].origin) = {}
            /\ analysis.returned = "list" =>
                  listedUnder(indexChanges[i].path) = {i}

C27_Witness ==
    /\ statusesCollected
    /\ analysis.returned = "list"
    /\ renames # {}
    /\ \E i \in renames : analysis.list[i].status # "deleted"

(***************************************************************************)
(* The length of the prompt text                                           *)
(***************************************************************************)
RECURSIVE joinedLength(_)
\* the length of the entries joined by line feeds: what is left of
\* entry + "\n" + entry + "\n" .. after trim() has taken the last line
\* feed (trim() takes no less)
joinedLength(entries) ==
    IF entries = <<>> THEN 0
    ELSE IF Len(entries) = 1 THEN textLength(entries[1])
    ELSE textLength(entries[1]) + 1 + joinedLength(Tail(entries))

\* C28: whenever formatSmartDiff returns per-file entries, and not the stat
\* summary, the returned string is at most MAX_CHARS long, line feeds
\* between the entries included; so is the text handed to the generation
C28_ReturnedEntriesWithinBudget ==
    /\ (formatted /\ diffText.kind = "entries") =>
           joinedLength(diffText.entries) <= MAX_CHARS
    /\ prompt.kind = "entries" => joinedLength(prompt.entries) <= MAX_CHARS

\* a returned text that is exactly MAX_CHARS long
C28_Witness ==
    /\ formatted
    /\ diffText.kind = "entries"
    /\ joinedLength(diffText.entries) = MAX_CHARS

(***************************************************************************)
(* Properties of the cached diff                                           *)
(***************************************************************************)
\* run t ends in this step with the warning or in the catch block, on its
\* own or as the previewSmartDiff of a generateSmart
endsWithout(t) ==
    \/ cmds[t].pc # cmds'[t].pc /\ cmds'[t].pc \in {"warned", "failed"}
    \/ cmds[t].preview = "running" /\ cmds'[t].preview \in {"warned", "failed"}

\* run t is a previewSmartDiff, by itself or executed by generateSmart, or
\* a generateDirect
collects(t) ==
    \/ cmds[t].cmd \in {"previewSmartDiff", "generateDirect"}
    \/ cmds[t].preview = "running"

\* C29: cachedDiff changes only in the step of a previewSmartDiff or
\* generateDirect run that has found staged changes and formatted them; a
\* run that throws or finds nothing staged leaves it as it was; a
\* generateSmart invoked on a non-empty cachedDiff calls runAiGeneration
\* with that text, which is what reaches the backend, and never calls
\* analyzeChanges
C29_CacheWrittenOnlyAfterStagedChangesFound ==
    [][/\ cachedDiff' # cachedDiff =>
              \E t \in 1..Len(cmds) :
                  /\ cmds[t].pc = "format"
                  /\ cmds'[t].pc # "format"
                  /\ collects(t)
                  /\ cmds[t].analysis \in StagedTexts
                  /\ cmds[t].collected = 1
       /\ \A t \in 1..Len(cmds) : endsWithout(t) => cachedDiff' = cachedDiff
       /\ (/\ Len(cmds') > Len(cmds)
           /\ cmds'[Len(cmds')].cmd = "generateSmart"
           /\ ~(cachedDiff.null \/ cachedDiff.text = "")) =>
              /\ cmds'[Len(cmds')].pc = "generate"
              /\ cmds'[Len(cmds')].arg = cachedDiff.text
              /\ cmds'[Len(cmds')].collected = 0
              /\ cachedDiff' = cachedDiff
       /\ \A t \in 1..Len(cmds) :
              cmds[t].pc = "generate" =>
                 /\ cmds'[t].collected = cmds[t].collected
                 /\ cmds'[t].pc # "generate" =>
                        backend' = Append(backend, [by |-> t, diff |-> cmds[t].arg])
       /\ backend' # backend =>
              \E t \in 1..Len(cmds) :
                  cmds[t].pc = "generate" /\ cmds'[t].pc = "done"]_vars

\* a generateSmart found the cache filled and its text, which is no longer
\* what is staged, has reached the backend
C29_Witness ==
    \E k \in 1..Len(backend) :
        /\ cmds[backend[k].by].cmd = "generateSmart"
        /\ cmds[backend[k].by].collected = 0
        /\ backend[k].diff = cachedDiff.text
        /\ backend[k].diff # staged

(***************************************************************************)
(* Properties of the LRUCache                                              *)
(***************************************************************************)
\* the keys of the cache and the value each has
keysOf(entries) == {entries[n].key : n \in 1..Len(entries)}
asMap(entries) == [key \in keysOf(entries) |-> valueOf(entries, key)]

\* the number of the last call that was a set of the key or a get that
\* found it, 0 if there is none
lastUse(key) ==
    LET uses == {n \in 1..Len(history) :
                    /\ history[n].key = key
                    /\ \/ history[n].name = "set"
                       \/ history[n].name = "get" /\ history[n].hit}
    IN  IF uses = {} THEN 0 ELSE CHOOSE n \in uses : \A m \in uses : m <= n

\* the keys of the cache whose last use is the oldest
leastRecentlyUsed ==
    {key \in keysOf(cache) :
        \A other \in keysOf(cache) : lastUse(key) <= lastUse(other)}

\* the call of this step is a set of a key the full cache does not hold
setsNewKeyOnFull(key) ==
    /\ Len(history') = Len(history) + 1
    /\ history'[Len(history')] = Op("set", key, FALSE)
    /\ Len(cache) = maxSize

\* C30: the cache never holds more than maxSize entries, and the set of a
\* new key on a full cache removes exactly the one key whose last set or
\* successful get is the oldest and leaves every other entry with its
\* value
C30_EvictsTheLeastRecentlyUsed ==
    [][/\ Len(cache') <= maxSize
       /\ Cardinality(keysOf(cache')) = Len(cache')
       /\ \A key \in Keys :
              setsNewKeyOnFull(key) =>
                 /\ Cardinality(leastRecentlyUsed) = 1
                 /\ keysOf(cache') =
                        (keysOf(cache) \ leastRecentlyUsed) \cup {key}
                 /\ \A other \in keysOf(cache) \ leastRecentlyUsed :
                        asMap(cache')[other] = asMap(cache)[other]]_vars

\* a new key has pushed out an entry that was not the first one set: the
\* first one had been read since
C30_Witness ==
    /\ Len(history) >= 4
    /\ maxSize = 2
    /\ Len(cache) = 2
    /\ \E n \in 1..Len(history) :
          /\ history[n] = Op("set", cache[2].key, FALSE)
          /\ \E g \in 1..(n - 1) :
                /\ history[g] = Op("get", cache[1].key, TRUE)
                /\ \E first \in 1..(g - 1), second \in 1..(g - 1) :
                      /\ first < second
                      /\ history[first] = Op("set", cache[1].key, FALSE)
                      /\ history[second].name = "set"
                      /\ history[second].key \notin keysOf(cache)

====
